---- MODULE Spec2Model ----
(***************************************************************************)
(* Credit-card optimizer: the query normalizer (normalization.py), the     *)
(* reward valuation (valuation.py), the recommendation engine (engine.py)  *)
(* and the catalog cache and recommendation endpoint of the web            *)
(* application (app.py, api.py).                                           *)
(*                                                                         *)
(* Python str values are TLA+ strings.  An Optional value is the empty set *)
(* for None and a singleton set otherwise.  A Python float is an IEEE-754  *)
(* double, and its arithmetic rounds as the hardware does.                 *)
(***************************************************************************)
EXTENDS Integers, Sequences, FiniteSets, TLC

(***************************************************************************)
(* Bounds of the model                                                     *)
(***************************************************************************)
MaxRules == 2
MaxCalls == 2
MaxCaps == 2
MaxSnapshots == 3

(***************************************************************************)
(* Python floats: IEEE-754 binary64 with round-half-even.  A float is      *)
(* [s, e, m]: the value s * M * 2^e, where the 53-bit integer M, with      *)
(* 2^52 <= M < 2^53, is kept as its four base-2^14 digits m[1] (lowest) to *)
(* m[4]; zero is [s |-> 1, e |-> 0, m |-> <<0, 0, 0, 0>>].  Wider integers *)
(* on the way to a rounded result are sequences of base-2^14 digits,       *)
(* lowest first.  Infinities, NaN and subnormal numbers are outside the    *)
(* values the program computes with, and the two zeros of the format are   *)
(* one value here.                                                         *)
(***************************************************************************)
Limb == 2^14

Abs(x) == IF x < 0 THEN -x ELSE x

(* digit i of N, 0 beyond its length *)
BigLimb(N, i) == IF i >= 1 /\ i <= Len(N) THEN N[i] ELSE 0

(* N without its leading zero digits *)
RECURSIVE BigTrim(_)
BigTrim(N) ==
  IF Len(N) > 0 /\ N[Len(N)] = 0 THEN BigTrim(SubSeq(N, 1, Len(N) - 1)) ELSE N

(* the digits of a non-negative integer *)
RECURSIVE BigOfInt(_)
BigOfInt(k) == IF k = 0 THEN <<>> ELSE <<k % Limb>> \o BigOfInt(k \div Limb)

(* the integer of the digits (it must fit an int) *)
RECURSIVE IntOfBig(_)
IntOfBig(N) == IF Len(N) = 0 THEN 0 ELSE N[1] + Limb * IntOfBig(Tail(N))

(* the number of bits of a digit d > 0 *)
DigitBits(d) == CHOOSE k \in 1..14 : 2^(k - 1) <= d /\ d < 2^k

(* the number of bits of T, which has no leading zero digit *)
TrimmedBitLen(T) ==
  IF Len(T) = 0 THEN 0 ELSE 14 * (Len(T) - 1) + DigitBits(T[Len(T)])

(* the number of bits of N *)
BigBitLen(N) == TrimmedBitLen(BigTrim(N))

(* the digits i, i+1, ..., n of floor(N / 2^(14 * q + r)) *)
RECURSIVE BigShiftRightFrom(_, _, _, _, _)
BigShiftRightFrom(N, q, r, i, n) ==
  IF i > n THEN <<>>
  ELSE <<(BigLimb(N, i + q) \div 2^r) + (BigLimb(N, i + q + 1) % 2^r) * 2^(14 - r)>>
       \o BigShiftRightFrom(N, q, r, i + 1, n)

(* the digits i, i+1, ..., n of N * 2^(14 * q + r) *)
RECURSIVE BigShiftLeftFrom(_, _, _, _, _)
BigShiftLeftFrom(N, q, r, i, n) ==
  IF i > n THEN <<>>
  ELSE <<(BigLimb(N, i - q) % 2^(14 - r)) * 2^r
         + (BigLimb(N, i - q - 1) \div 2^(14 - r))>>
       \o BigShiftLeftFrom(N, q, r, i + 1, n)

BigShiftLeft(N, sh) ==
  BigShiftLeftFrom(N, sh \div 14, sh % 14, 1, Len(N) + (sh \div 14) + 1)

(* floor(N / 2^sh); N * 2^-sh when sh is negative *)
BigShiftRight(N, sh) ==
  IF sh <= 0 THEN BigShiftLeft(N, -sh)
  ELSE BigShiftRightFrom(N, sh \div 14, sh % 14, 1, Len(N) - (sh \div 14))

(* bit k of N, the lowest being bit 0 *)
BigBit(N, k) == (BigLimb(N, (k \div 14) + 1) \div 2^(k % 14)) % 2

(* some bit of N below bit k is set *)
BigLowBits(N, k) ==
  \/ \E i \in 1..(k \div 14) : BigLimb(N, i) # 0
  \/ BigLimb(N, (k \div 14) + 1) % 2^(k % 14) # 0

(* A + B + carry, from digit i on *)
RECURSIVE BigAddFrom(_, _, _, _)
BigAddFrom(A, B, i, carry) ==
  IF i > Len(A) /\ i > Len(B)
  THEN (IF carry = 0 THEN <<>> ELSE <<carry>>)
  ELSE <<(BigLimb(A, i) + BigLimb(B, i) + carry) % Limb>>
       \o BigAddFrom(A, B, i + 1, (BigLimb(A, i) + BigLimb(B, i) + carry) \div Limb)

BigAdd(A, B) == BigAddFrom(A, B, 1, 0)

(* A - B - borrow for A >= B, from digit i on *)
RECURSIVE BigSubFrom(_, _, _, _)
BigSubFrom(A, B, i, borrow) ==
  IF i > Len(A) THEN <<>>
  ELSE <<(BigLimb(A, i) - BigLimb(B, i) - borrow) % Limb>>
       \o BigSubFrom(A, B, i + 1, IF BigLimb(A, i) - BigLimb(B, i) - borrow < 0 THEN 1 ELSE 0)

BigSub(A, B) == BigSubFrom(A, B, 1, 0)

(* A < B, comparing the digits i, i-1, ..., 1 *)
RECURSIVE BigLessFrom(_, _, _)
BigLessFrom(A, B, i) ==
  IF i = 0 THEN FALSE
  ELSE IF BigLimb(A, i) # BigLimb(B, i) THEN BigLimb(A, i) < BigLimb(B, i)
  ELSE BigLessFrom(A, B, i - 1)

BigLess(A, B) == BigLessFrom(A, B, IF Len(A) > Len(B) THEN Len(A) ELSE Len(B))

(* the sum of the products A[i] * B[k + 1 - i]: column k of A * B *)
RECURSIVE BigColumn(_, _, _, _)
BigColumn(A, B, k, i) ==
  IF i > Len(A) THEN 0
  ELSE BigLimb(A, i) * BigLimb(B, k + 1 - i) + BigColumn(A, B, k, i + 1)

(* A * B for A, B of at most four digits, from column k on, where sum is   *)
(* column k and the carry into it                                          *)
RECURSIVE BigMulFrom(_, _, _, _)
BigMulFrom(A, B, k, sum) ==
  IF k > Len(A) + Len(B) THEN <<>>
  ELSE <<sum % Limb>> \o BigMulFrom(A, B, k + 1, BigColumn(A, B, k + 1, 1) + sum \div Limb)

BigMul(A, B) == BigMulFrom(A, B, 1, BigColumn(A, B, 1, 1))

FZero == [s |-> 1, e |-> 0, m |-> <<0, 0, 0, 0>>]
IsZero(a) == a.m = <<0, 0, 0, 0>>

(* dropping the lowest sh bits of N rounds upward: the highest of them is  *)
(* set, and a lower one is too or, on a tie, the last bit kept             *)
RoundsUp(N, sh) ==
  /\ sh > 0
  /\ BigBit(N, sh - 1) = 1
  /\ (BigLowBits(N, sh - 1) \/ BigBit(N, sh) = 1)

(* N / 2^sh rounded to the nearest integer, to the even one on a tie *)
BigRoundShift(N, sh) ==
  BigAdd(BigShiftRight(N, sh), IF RoundsUp(N, sh) THEN <<1>> ELSE <<>>)

(* the float s * M * 2^e for M of 53 bits, or of 54 when rounding carried  *)
(* into 2^53                                                               *)
Pack(s, M, e) ==
  IF BigBitLen(M) = 54
  THEN [s |-> s, e |-> e + 1, m |-> <<0, 0, 0, 2^10>>]
  ELSE [s |-> s, e |-> e,
        m |-> <<BigLimb(M, 1), BigLimb(M, 2), BigLimb(M, 3), BigLimb(M, 4)>>]

(* Round for an N of bits bits *)
RoundBits(s, N, e, bits) ==
  IF bits = 0 THEN FZero ELSE Pack(s, BigRoundShift(N, bits - 53), e + bits - 53)

(* s * N * 2^e rounded to the nearest float, to the even one on a tie *)
Round(s, N, e) == RoundBits(s, N, e, BigBitLen(N))

(* float(k) for an int k *)
RInt(k) == Round(IF k < 0 THEN -1 ELSE 1, BigOfInt(Abs(k)), 0)

RNeg(a) == IF IsZero(a) THEN a ELSE [a EXCEPT !.s = -a.s]

(* a < b and a <= b *)
MagLess(a, b) ==
  IF IsZero(b) THEN FALSE
  ELSE IF IsZero(a) THEN TRUE
  ELSE IF a.e # b.e THEN a.e < b.e
  ELSE BigLess(a.m, b.m)

RLess(a, b) ==
  IF a.s # b.s THEN a.s < b.s
  ELSE MagLess(IF a.s = 1 THEN a ELSE b, IF a.s = 1 THEN b ELSE a)

RLeq(a, b) == a = b \/ RLess(a, b)

(* |A - B| *)
BigDifference(A, B) == IF BigLess(A, B) THEN BigSub(B, A) ELSE BigSub(A, B)

(* sa * A * 2^e + sb * B * 2^e *)
AddMagnitudes(sa, A, sb, B, e) ==
  Round(IF sa = sb \/ ~BigLess(A, B) THEN sa ELSE sb,
        IF sa = sb THEN BigAdd(A, B) ELSE BigDifference(A, B), e)

(* a + b for a.e >= b.e, neither being zero: b is below a quarter of the   *)
(* last bit of a when the exponents are more than 55 apart                 *)
AddAligned(a, b) ==
  IF a.e - b.e > 55 THEN a
  ELSE AddMagnitudes(a.s, BigShiftLeft(a.m, a.e - b.e), b.s, b.m, b.e)

RAdd(a, b) ==
  IF IsZero(a) THEN b
  ELSE IF IsZero(b) THEN a
  ELSE AddAligned(IF a.e >= b.e THEN a ELSE b, IF a.e >= b.e THEN b ELSE a)

RSub(a, b) == RAdd(a, RNeg(b))

RMul(a, b) ==
  IF IsZero(a) \/ IsZero(b) THEN FZero
  ELSE Round(a.s * b.s, BigMul(a.m, b.m), a.e + b.e)

(* the largest q not above qhat with D * q <= R *)
RECURSIVE DivDigit(_, _, _)
DivDigit(R, D, qhat) ==
  IF BigLess(R, BigMul(D, <<qhat>>)) THEN DivDigit(R, D, qhat - 1) ELSE qhat

(* the digit q and what it leaves of R *)
DivRemainder(R, D, q) == [q |-> q, r |-> SubSeq(BigSub(R, BigMul(D, <<q>>)), 1, 4)]

(* one digit of a long division: floor(R / D) and the remainder, for a     *)
(* four-digit D whose highest digit is at least Limb / 2 and R < D * Limb; *)
(* the digit estimated from the leading digits is at most two too large    *)
DivEstimate(est) == IF est > Limb - 1 THEN Limb - 1 ELSE est
DivStep(R, D) ==
  DivRemainder(R, D,
               DivDigit(R, D, DivEstimate((BigLimb(R, 5) * Limb + BigLimb(R, 4)) \div D[4])))

(* the digits, lowest first, of floor(R * Limb^k / D), with acc the digits *)
(* so far, and the last remainder in front of them; step is the division   *)
(* of R by D                                                               *)
RECURSIVE LongDivision(_, _, _, _)
LongDivision(step, D, k, acc) ==
  IF k = 0 THEN <<step.r, <<step.q>> \o acc>>
  ELSE LongDivision(DivStep(<<0>> \o step.r, D), D, k - 1, <<step.q>> \o acc)

BigDivide(R, D) == LongDivision(DivStep(R, D), D, 4, <<>>)

(* twice the quotient, its last bit set when the division left a remainder *)
StickyQuotient(div) ==
  [BigShiftLeftFrom(div[2], 0, 1, 1, 5)
     EXCEPT ![1] = @ + (IF div[1] = <<0, 0, 0, 0>> THEN 0 ELSE 1)]

(* what a / b is when b is zero: the exception float division raises *)
ZeroDivisionError == [raises |-> "ZeroDivisionError"]

(* a / b.  A zero divisor raises, whatever the dividend; otherwise 57 or   *)
(* 58 bits of the quotient, the last of them set when the division leaves  *)
(* a remainder, rounded                                                    *)
RDiv(a, b) ==
  IF IsZero(b) THEN ZeroDivisionError
  ELSE IF IsZero(a) THEN FZero
  ELSE Round(a.s * b.s,
             StickyQuotient(BigDivide(BigShiftLeftFrom(a.m, 0, 3, 1, 5),
                                      BigShiftLeftFrom(b.m, 0, 3, 1, 4))),
             a.e - b.e - 57)

(* the float of the decimal literal n/d, d > 0 *)
Rat(n, d) == RDiv(RInt(n), RInt(d))

(* format(x, ".2f") and format(x, ",.0f") for x >= 0: the float's value    *)
(* rounded to `digits` decimals, to the even one on a tie, as a count of   *)
(* units of 10^-digits                                                     *)
Pow10(digits) == IF digits = 0 THEN 1 ELSE 100
FormatFixed(x, digits) ==
  x.s * IntOfBig(BigTrim(BigRoundShift(BigMul(x.m, BigOfInt(Pow10(digits))), -x.e)))

(***************************************************************************)
(* Python str operations                                                   *)
(***************************************************************************)
CharAt(s, i) == SubSeq(s, i, i)

(* the characters of s *)
Chars(s) == {CharAt(s, i) : i \in 1..Len(s)}

(* The characters of a str here are those of ISO-8859-1 (U+0001 to U+00FF) *)
(* with the properties Python gives them, and the whitespace U+1680;       *)
(* LowerChar and UpperChar, the first thing the program applies to a str,  *)
(* have no value elsewhere.  The other whitespace characters of Python     *)
(* (U+2000 to U+200A, U+2028, U+2029, U+202F, U+205F, U+3000) cannot be    *)
(* written in a string here.                                               *)

(* characters str.strip() strips and \s matches: U+0009 to U+000D and the  *)
(* space; U+001C to U+001F, U+0085, U+00A0 and U+1680.  The second string  *)
(* holds U+000B, U+001C, U+001D, U+001E, U+001F, U+0085, U+00A0 and        *)
(* U+1680 themselves, in this order.                                       *)
Whitespace == Chars("\t\n\f\r ") \cup Chars("  ")

(* the characters c with c.lower() # c, and c.lower() at the same index *)
UpperCase == "ABCDEFGHIJKLMNOPQRSTUVWXYZ"
             \o "ÀÁÂÃÄÅÆÇÈÉÊËÌÍÎÏÐÑÒÓÔÕÖØÙÚÛÜÝÞ"
LowerCase == "abcdefghijklmnopqrstuvwxyz"
             \o "àáâãäåæçèéêëìíîïðñòóôõöøùúûüýþ"
Digits == Chars("0123456789")

(* characters matched by \w: the letters, the digits and the numerics *)
WordChars == Chars(UpperCase) \cup Chars(LowerCase) \cup Digits
             \cup Chars("_ª²³µ¹º¼½¾ßÿ")

(* the characters that are neither whitespace nor matched by \w (a grave   *)
(* accent in a string needs an apostrophe after it)                        *)
OtherChars == Chars("!\"#$%&()*+,-./:;<=>?@[\\]^`'{|}~"
                    \o "¡¢£¤¥¦§¨©«¬­®¯°±´¶·¸»¿×÷")

(* c.lower() for the characters of UpperCase, c.upper() for those of       *)
(* LowerCase                                                               *)
LowerOf ==
  [c \in Chars(UpperCase) |->
     CharAt(LowerCase, CHOOSE i \in 1..Len(UpperCase) : CharAt(UpperCase, i) = c)]
UpperOf ==
  [c \in Chars(LowerCase) |->
     CharAt(UpperCase, CHOOSE i \in 1..Len(LowerCase) : CharAt(LowerCase, i) = c)]

(* the characters c with c.lower() = c, and those with c.upper() = c *)
LowerUnchanged == (Whitespace \cup WordChars \cup OtherChars) \ DOMAIN LowerOf
UpperUnchanged ==
  (Whitespace \cup WordChars \cup OtherChars) \ (DOMAIN UpperOf \cup {"ß", "µ", "ÿ"})

(* c.lower() *)
LowerChar(c) ==
  CASE c \in LowerUnchanged -> c
    [] c \in DOMAIN LowerOf -> LowerOf[c]

(* c.upper(): two characters for the sharp s, the Greek capital for the    *)
(* micro sign, and no value for the y with diaeresis, whose capital is     *)
(* U+0178                                                                  *)
UpperChar(c) ==
  CASE c \in UpperUnchanged -> c
    [] c \in DOMAIN UpperOf -> UpperOf[c]
    [] c = "ß" -> "SS"
    [] c = "µ" -> "Μ"

RECURSIVE StrLower(_)
StrLower(s) ==
  IF s = "" THEN "" ELSE LowerChar(CharAt(s, 1)) \o StrLower(SubSeq(s, 2, Len(s)))

RECURSIVE StrUpper(_)
StrUpper(s) ==
  IF s = "" THEN "" ELSE UpperChar(CharAt(s, 1)) \o StrUpper(SubSeq(s, 2, Len(s)))

RECURSIVE StrStrip(_)
StrStrip(s) ==
  IF s = "" THEN ""
  ELSE IF CharAt(s, 1) \in Whitespace THEN StrStrip(SubSeq(s, 2, Len(s)))
  ELSE IF CharAt(s, Len(s)) \in Whitespace THEN StrStrip(SubSeq(s, 1, Len(s) - 1))
  ELSE s

(* t in s *)
StrContains(s, t) ==
  \E i \in 1..(Len(s) - Len(t) + 1) : SubSeq(s, i, i + Len(t) - 1) = t

(* s.replace(a, b) for a single character a *)
RECURSIVE StrReplaceChar(_, _, _)
StrReplaceChar(s, a, b) ==
  IF s = "" THEN ""
  ELSE (IF CharAt(s, 1) = a THEN b ELSE CharAt(s, 1))
       \o StrReplaceChar(SubSeq(s, 2, Len(s)), a, b)

(* x in xs for a Python list xs *)
InList(x, xs) == \E i \in 1..Len(xs) : xs[i] = x

(***************************************************************************)
(* The query strings the model draws from                                  *)
(***************************************************************************)
(* a category, merchants by their key and with a suffix the normalizer     *)
(* strips, a merchant no rule of the pool names, and the blank and         *)
(* one-letter queries, which resolve to no merchant                        *)
Queries == {"groceries", "Walmart", "Whole Foods Market", "netflix", "Macy's", "", " ", "a"}

(***************************************************************************)
(* Lookup tables of config.py and normalization.py, in declared order      *)
(***************************************************************************)
CATEGORY_SYNONYMS ==
  << [name |-> "groceries",
      synonyms |-> <<"grocery", "supermarket", "supermarkets", "grocery store", "grocery stores", "food store", "food stores", "market", "markets", "food market", "grocery shopping", "food shopping", "supermarket shopping">>],
     [name |-> "gas",
      synonyms |-> <<"gas station", "gas stations", "fuel", "gasoline", "petrol", "petrol station", "filling station", "service station", "fuel station", "gas pump">>],
     [name |-> "restaurants",
      synonyms |-> <<"restaurant", "dining", "dine", "food", "fast food", "fast-food", "fastfood", "cafe", "café", "coffee shop", "coffeehouse", "bistro", "eatery", "diner", "casual dining", "fine dining", "takeout", "take-out", "delivery">>],
     [name |-> "travel",
      synonyms |-> <<"travel", "trip", "trips", "vacation", "vacations", "tourism", "tourist", "airline", "airlines", "flight", "flights", "airport", "hotel", "hotels", "lodging", "accommodation", "resort", "resorts", "cruise", "cruises", "car rental", "car rentals", "rental car", "train", "trains", "railway">>],
     [name |-> "online_shopping",
      synonyms |-> <<"online", "e-commerce", "internet shopping", "online store", "online stores", "web shopping", "internet purchase", "online purchase", "ecommerce">>],
     [name |-> "department_store",
      synonyms |-> <<"department store", "department stores", "retail store", "retail stores">>],
     [name |-> "wholesale",
      synonyms |-> <<"wholesale club", "warehouse", "warehouse club", "warehouse store", "bulk store", "membership warehouse">>],
     [name |-> "streaming",
      synonyms |-> <<"streaming", "streaming service", "streaming services", "netflix", "spotify", "hulu", "disney+", "disney plus", "apple music", "youtube premium", "prime video", "hbo", "hbo max", "paramount+", "paramount plus">>],
     [name |-> "utilities",
      synonyms |-> <<"utility", "utilities", "phone", "internet", "cable", "electricity", "electric", "water", "gas utility", "internet service", "phone service", "cable service", "cell phone", "mobile phone", "wireless", "internet provider">>],
     [name |-> "pharmacy",
      synonyms |-> <<"pharmacy", "pharmacies", "drugstore", "drug stores", "cvs", "walgreens", "rite aid", "prescription", "prescriptions", "medication", "medications">>],
     [name |-> "entertainment",
      synonyms |-> <<"entertainment", "movies", "movie", "cinema", "theater", "theatre", "concert", "concerts", "sports", "sporting event", "sporting events", "amusement park", "theme park", "bowling", "golf", "sports bar">>],
     [name |-> "shopping",
      synonyms |-> <<"shopping", "retail", "store", "stores", "merchant", "merchants", "purchase", "purchases", "buy", "buying">>],
     [name |-> "transit",
      synonyms |-> <<"transit", "public transit", "public transportation", "metro", "subway", "bus", "buses", "uber", "lyft", "rideshare", "ride share", "taxi", "taxis">>] >>

KNOWN_MERCHANTS ==
  << [key |-> "walmart", merchant_name |-> "Walmart", mcc |-> {"5331"},
      normalized_categories |-> <<"general_merchandise", "groceries">>,
      aliases |-> <<"walmart supercenter", "walmart.com", "walmart store", "walmart neighborhood market">>],
     [key |-> "target", merchant_name |-> "Target", mcc |-> {"5331"},
      normalized_categories |-> <<"general_merchandise", "groceries">>,
      aliases |-> <<"target.com", "target store">>],
     [key |-> "kroger", merchant_name |-> "Kroger", mcc |-> {"5411"},
      normalized_categories |-> <<"groceries">>,
      aliases |-> <<"kroger grocery", "kroger.com", "kroger store", "ralphs", "fred meyer", "food 4 less", "king soopers">>],
     [key |-> "whole foods", merchant_name |-> "Whole Foods", mcc |-> {"5411"},
      normalized_categories |-> <<"groceries">>,
      aliases |-> <<"whole foods market", "wholefoods", "whole foods">>],
     [key |-> "safeway", merchant_name |-> "Safeway", mcc |-> {"5411"},
      normalized_categories |-> <<"groceries">>,
      aliases |-> <<"safeway.com", "safeway store", "vons", "pavilions", "tom thumb">>],
     [key |-> "publix", merchant_name |-> "Publix", mcc |-> {"5411"},
      normalized_categories |-> <<"groceries">>,
      aliases |-> <<"publix.com", "publix supermarket">>],
     [key |-> "wegmans", merchant_name |-> "Wegmans", mcc |-> {"5411"},
      normalized_categories |-> <<"groceries">>,
      aliases |-> <<"wegmans.com", "wegmans food market">>],
     [key |-> "h-e-b", merchant_name |-> "H-E-B", mcc |-> {"5411"},
      normalized_categories |-> <<"groceries">>,
      aliases |-> <<"heb", "h.e.b", "heb.com">>],
     [key |-> "albertsons", merchant_name |-> "Albertsons", mcc |-> {"5411"},
      normalized_categories |-> <<"groceries">>,
      aliases |-> <<"albertsons.com", "acme", "jewel osco", "shaws", "star market">>],
     [key |-> "stop & shop", merchant_name |-> "Stop & Shop", mcc |-> {"5411"},
      normalized_categories |-> <<"groceries">>,
      aliases |-> <<"stop and shop", "stopandshop", "stopandshop.com">>],
     [key |-> "giant", merchant_name |-> "Giant", mcc |-> {"5411"},
      normalized_categories |-> <<"groceries">>,
      aliases |-> <<"giant food", "giant.com", "giant eagle", "giant martin">>],
     [key |-> "food lion", merchant_name |-> "Food Lion", mcc |-> {"5411"},
      normalized_categories |-> <<"groceries">>,
      aliases |-> <<"foodlion.com", "food lion store">>],
     [key |-> "meijer", merchant_name |-> "Meijer", mcc |-> {"5411"},
      normalized_categories |-> <<"groceries", "general_merchandise">>,
      aliases |-> <<"meijer.com", "meijer store">>],
     [key |-> "costco", merchant_name |-> "Costco", mcc |-> {"5300"},
      normalized_categories |-> <<"wholesale", "groceries">>,
      aliases |-> <<"costco wholesale", "costco.com">>],
     [key |-> "sam's club", merchant_name |-> "Sam's Club", mcc |-> {"5300"},
      normalized_categories |-> <<"wholesale", "groceries">>,
      aliases |-> <<"sams club", "samsclub", "samsclub.com">>],
     [key |-> "bj's", merchant_name |-> "BJ's", mcc |-> {"5300"},
      normalized_categories |-> <<"wholesale", "groceries">>,
      aliases |-> <<"bjs", "bjs wholesale", "bjs.com">>],
     [key |-> "amazon", merchant_name |-> "Amazon", mcc |-> {"5999"},
      normalized_categories |-> <<"online_shopping", "general_merchandise">>,
      aliases |-> <<"amazon.com", "amzn", "amazon prime">>],
     [key |-> "macy's", merchant_name |-> "Macy's", mcc |-> {"5311"},
      normalized_categories |-> <<"department_store">>,
      aliases |-> <<"macys", "macy", "macy's", "macys.com">>],
     [key |-> "best buy", merchant_name |-> "Best Buy", mcc |-> {"5732"},
      normalized_categories |-> <<"electronics", "shopping">>,
      aliases |-> <<"bestbuy", "bestbuy.com", "best buy store">>],
     [key |-> "home depot", merchant_name |-> "Home Depot", mcc |-> {"5200"},
      normalized_categories |-> <<"home_improvement", "shopping">>,
      aliases |-> <<"homedepot", "homedepot.com", "the home depot">>],
     [key |-> "lowe's", merchant_name |-> "Lowe's", mcc |-> {"5200"},
      normalized_categories |-> <<"home_improvement", "shopping">>,
      aliases |-> <<"lowes", "lowes.com", "lowes store">>],
     [key |-> "nordstrom", merchant_name |-> "Nordstrom", mcc |-> {"5311"},
      normalized_categories |-> <<"department_store">>,
      aliases |-> <<"nordstrom.com", "nordstrom rack">>],
     [key |-> "tj maxx", merchant_name |-> "TJ Maxx", mcc |-> {"5311"},
      normalized_categories |-> <<"department_store">>,
      aliases |-> <<"tjmaxx", "tj maxx", "tjmaxx.com", "marshalls", "homegoods">>],
     [key |-> "shell", merchant_name |-> "Shell", mcc |-> {"5541"},
      normalized_categories |-> <<"gas">>,
      aliases |-> <<"shell gas", "shell station", "shell.com">>],
     [key |-> "chevron", merchant_name |-> "Chevron", mcc |-> {"5541"},
      normalized_categories |-> <<"gas">>,
      aliases |-> <<"chevron gas", "chevron station", "chevron.com">>],
     [key |-> "bp", merchant_name |-> "BP", mcc |-> {"5541"},
      normalized_categories |-> <<"gas">>,
      aliases |-> <<"bp gas", "bp station", "british petroleum", "bp.com">>],
     [key |-> "exxon", merchant_name |-> "Exxon", mcc |-> {"5541"},
      normalized_categories |-> <<"gas">>,
      aliases |-> <<"exxon mobil", "exxonmobil", "exxon station", "exxon.com">>],
     [key |-> "mobil", merchant_name |-> "Mobil", mcc |-> {"5541"},
      normalized_categories |-> <<"gas">>,
      aliases |-> <<"mobil gas", "mobil station", "mobil.com">>],
     [key |-> "speedway", merchant_name |-> "Speedway", mcc |-> {"5541"},
      normalized_categories |-> <<"gas">>,
      aliases |-> <<"speedway gas", "speedway station">>],
     [key |-> "7-eleven", merchant_name |-> "7-Eleven", mcc |-> {"5541"},
      normalized_categories |-> <<"gas", "convenience">>,
      aliases |-> <<"7eleven", "7-11", "seven eleven">>],
     [key |-> "mcdonald's", merchant_name |-> "McDonald's", mcc |-> {"5814"},
      normalized_categories |-> <<"restaurants", "fast food">>,
      aliases |-> <<"mcdonalds", "mcd", "mcdonald", "mcdonalds.com">>],
     [key |-> "starbucks", merchant_name |-> "Starbucks", mcc |-> {"5814"},
      normalized_categories |-> <<"restaurants", "cafe">>,
      aliases |-> <<"starbucks.com", "starbucks coffee">>],
     [key |-> "chipotle", merchant_name |-> "Chipotle", mcc |-> {"5814"},
      normalized_categories |-> <<"restaurants", "fast food">>,
      aliases |-> <<"chipotle.com", "chipotle mexican grill">>],
     [key |-> "subway", merchant_name |-> "Subway", mcc |-> {"5814"},
      normalized_categories |-> <<"restaurants", "fast food">>,
      aliases |-> <<"subway.com", "subway restaurant">>],
     [key |-> "pizza hut", merchant_name |-> "Pizza Hut", mcc |-> {"5812"},
      normalized_categories |-> <<"restaurants", "fast food">>,
      aliases |-> <<"pizzahut", "pizza hut", "pizzahut.com">>],
     [key |-> "domino's", merchant_name |-> "Domino's", mcc |-> {"5812"},
      normalized_categories |-> <<"restaurants", "fast food">>,
      aliases |-> <<"dominos", "domino's pizza", "dominos.com">>],
     [key |-> "delta", merchant_name |-> "Delta Airlines", mcc |-> {"4511"},
      normalized_categories |-> <<"travel", "airline">>,
      aliases |-> <<"delta air lines", "delta.com", "delta air">>],
     [key |-> "united", merchant_name |-> "United Airlines", mcc |-> {"4511"},
      normalized_categories |-> <<"travel", "airline">>,
      aliases |-> <<"united airlines", "united.com", "united air">>],
     [key |-> "american airlines", merchant_name |-> "American Airlines", mcc |-> {"4511"},
      normalized_categories |-> <<"travel", "airline">>,
      aliases |-> <<"aa.com", "american", "american air", "americanairlines">>],
     [key |-> "southwest", merchant_name |-> "Southwest Airlines", mcc |-> {"4511"},
      normalized_categories |-> <<"travel", "airline">>,
      aliases |-> <<"southwest.com", "southwest air", "southwest airlines">>],
     [key |-> "jetblue", merchant_name |-> "JetBlue", mcc |-> {"4511"},
      normalized_categories |-> <<"travel", "airline">>,
      aliases |-> <<"jetblue.com", "jet blue", "jetblue airways">>],
     [key |-> "alaska airlines", merchant_name |-> "Alaska Airlines", mcc |-> {"4511"},
      normalized_categories |-> <<"travel", "airline">>,
      aliases |-> <<"alaskaair.com", "alaska air", "alaskaairlines">>],
     [key |-> "uber", merchant_name |-> "Uber", mcc |-> {"4121"},
      normalized_categories |-> <<"transit", "travel">>,
      aliases |-> <<"uber.com", "uber ride", "uber eats">>],
     [key |-> "lyft", merchant_name |-> "Lyft", mcc |-> {"4121"},
      normalized_categories |-> <<"transit", "travel">>,
      aliases |-> <<"lyft.com", "lyft ride">>],
     [key |-> "netflix", merchant_name |-> "Netflix", mcc |-> {"4899"},
      normalized_categories |-> <<"streaming", "entertainment">>,
      aliases |-> <<"netflix.com">>],
     [key |-> "spotify", merchant_name |-> "Spotify", mcc |-> {"4899"},
      normalized_categories |-> <<"streaming", "entertainment">>,
      aliases |-> <<"spotify.com">>],
     [key |-> "hulu", merchant_name |-> "Hulu", mcc |-> {"4899"},
      normalized_categories |-> <<"streaming", "entertainment">>,
      aliases |-> <<"hulu.com">>],
     [key |-> "disney+", merchant_name |-> "Disney+", mcc |-> {"4899"},
      normalized_categories |-> <<"streaming", "entertainment">>,
      aliases |-> <<"disney plus", "disneyplus", "disneyplus.com">>],
     [key |-> "cvs", merchant_name |-> "CVS", mcc |-> {"5912"},
      normalized_categories |-> <<"pharmacy", "groceries">>,
      aliases |-> <<"cvs pharmacy", "cvs.com", "cvs store">>],
     [key |-> "walgreens", merchant_name |-> "Walgreens", mcc |-> {"5912"},
      normalized_categories |-> <<"pharmacy", "groceries">>,
      aliases |-> <<"walgreens pharmacy", "walgreens.com", "walgreens store">>],
     [key |-> "rite aid", merchant_name |-> "Rite Aid", mcc |-> {"5912"},
      normalized_categories |-> <<"pharmacy", "groceries">>,
      aliases |-> <<"riteaid", "rite aid pharmacy", "riteaid.com">>] >>

MCC_TO_CATEGORY ==
  ("5411" :> <<"groceries">>) @@
  ("5422" :> <<"groceries">>) @@
  ("5441" :> <<"groceries">>) @@
  ("5451" :> <<"groceries">>) @@
  ("5462" :> <<"groceries">>) @@
  ("5499" :> <<"groceries">>) @@
  ("5541" :> <<"gas">>) @@
  ("5542" :> <<"gas">>) @@
  ("5812" :> <<"restaurants">>) @@
  ("5814" :> <<"restaurants">>) @@
  ("5811" :> <<"restaurants">>) @@
  ("5311" :> <<"department_store">>) @@
  ("5331" :> <<"general_merchandise">>) @@
  ("5300" :> <<"wholesale">>) @@
  ("5732" :> <<"electronics", "shopping">>) @@
  ("5200" :> <<"home_improvement", "shopping">>) @@
  ("4511" :> <<"travel", "airline">>) @@
  ("7011" :> <<"travel", "hotel">>) @@
  ("4111" :> <<"transit">>) @@
  ("4121" :> <<"transit">>) @@
  ("4112" :> <<"transit">>) @@
  ("4119" :> <<"transit">>) @@
  ("7512" :> <<"travel">>) @@
  ("7513" :> <<"travel">>) @@
  ("7519" :> <<"travel">>) @@
  ("5999" :> <<"online_shopping">>) @@
  ("5970" :> <<"shopping">>) @@
  ("5971" :> <<"shopping">>) @@
  ("5972" :> <<"shopping">>) @@
  ("7832" :> <<"entertainment">>) @@
  ("7911" :> <<"entertainment">>) @@
  ("7922" :> <<"entertainment">>) @@
  ("7929" :> <<"entertainment">>) @@
  ("7932" :> <<"entertainment">>) @@
  ("7933" :> <<"entertainment">>) @@
  ("7941" :> <<"entertainment">>) @@
  ("4899" :> <<"streaming", "utilities">>) @@
  ("4814" :> <<"utilities">>) @@
  ("4816" :> <<"utilities">>) @@
  ("5912" :> <<"pharmacy">>) @@
  ("5995" :> <<"shopping">>) @@
  ("5998" :> <<"shopping">>)

POINT_VALUES ==
  ("CHASE_UR" :> Rat(17, 1000)) @@
  ("AMEX_MR" :> Rat(17, 1000)) @@
  ("CITI_TY" :> Rat(3, 200)) @@
  ("CAPITAL_ONE_MILES" :> Rat(2, 125)) @@
  ("DISCOVER_CASHBACK" :> Rat(1, 100)) @@
  ("BOA_POINTS" :> Rat(1, 100)) @@
  ("USBANK_POINTS" :> Rat(3, 250)) @@
  ("WELLS_FARGO_POINTS" :> Rat(1, 100)) @@
  ("BARCLAYS_POINTS" :> Rat(1, 100)) @@
  ("AMERICAN_AIRLINES_MILES" :> Rat(7, 500)) @@
  ("DEFAULT" :> Rat(1, 100))

(***************************************************************************)
(* normalization.py: the query normalizer                                  *)
(***************************************************************************)

(* the alternatives of the suffix pattern of resolve_merchant_query, in    *)
(* the order the regular expression tries them                             *)
NoiseWords == <<"store", "shop", "market", "supercenter", "super market", "grocery",
                "gas station", "station", "restaurant", "cafe", "pharmacy", "com", ".com">>

(* first index at or after i that holds no whitespace *)
RECURSIVE SkipWhitespace(_, _)
SkipWhitespace(s, i) ==
  IF i <= Len(s) /\ CharAt(s, i) \in Whitespace THEN SkipWhitespace(s, i + 1) ELSE i

(* \s+(alternative)\b tried at index i: the index after the match, 0 when  *)
(* the pattern does not match there                                        *)
NoiseMatchEnd(s, i) ==
  IF i > Len(s) \/ CharAt(s, i) \notin Whitespace THEN 0
  ELSE LET j == SkipWhitespace(s, i)
           Fits(k) == LET e == j + Len(NoiseWords[k])
                      IN  /\ e - 1 <= Len(s)
                          /\ SubSeq(s, j, e - 1) = NoiseWords[k]
                          /\ (e > Len(s) \/ CharAt(s, e) \notin WordChars)
       IN  IF \E k \in 1..Len(NoiseWords) : Fits(k)
           THEN LET k == CHOOSE k \in 1..Len(NoiseWords) :
                           Fits(k) /\ \A m \in 1..(k - 1) : ~Fits(m)
                IN  j + Len(NoiseWords[k])
           ELSE 0

(* re.sub(pattern, '', s) scanning from index i *)
RECURSIVE RemoveNoise(_, _)
RemoveNoise(s, i) ==
  IF i > Len(s) THEN ""
  ELSE LET e == NoiseMatchEnd(s, i)
       IN  IF e > 0 THEN RemoveNoise(s, e)
           ELSE CharAt(s, i) \o RemoveNoise(s, i + 1)

QueryLower(query) == StrStrip(StrLower(query))
QueryClean(query) == StrStrip(RemoveNoise(QueryLower(query), 1))

(* first index satisfying P, 0 when there is none: a for loop that returns *)
(* at its first hit                                                        *)
FirstIndex(n, P(_)) ==
  IF \E i \in 1..n : P(i)
  THEN CHOOSE i \in 1..n : P(i) /\ \A j \in 1..(i - 1) : ~P(j)
  ELSE 0

(* the two loops of normalize_category_name over the synonym table, and   *)
(* its last line                                                           *)
NormalizedName(synonyms, category_lower) ==
  LET Direct(i)  == \/ InList(category_lower, synonyms[i].synonyms)
                    \/ category_lower = synonyms[i].name
      Partial(i) == \E k \in 1..Len(synonyms[i].synonyms) :
                      StrContains(category_lower, synonyms[i].synonyms[k])
  IN  IF \E i \in 1..Len(synonyms) : Direct(i)
      THEN synonyms[FirstIndex(Len(synonyms), Direct)].name
      ELSE IF \E i \in 1..Len(synonyms) : Partial(i)
      THEN synonyms[FirstIndex(Len(synonyms), Partial)].name
      ELSE StrReplaceChar(category_lower, " ", "_")

normalize_category_name(category) ==
  NormalizedName(CATEGORY_SYNONYMS, StrStrip(StrLower(category)))

(* MerchantIndexIn without the pass that looks for a key inside the query *)
MerchantIndexWithoutKeySubstring(merchants, query_lower, query_clean) ==
  LET ExactKey(i)     == \/ merchants[i].key = query_lower
                         \/ merchants[i].key = query_clean
      ExactAlias(i)   == \/ InList(query_lower, merchants[i].aliases)
                         \/ InList(query_clean, merchants[i].aliases)
      PartialAlias(i) == \E k \in 1..Len(merchants[i].aliases) :
                           \/ StrContains(query_lower, merchants[i].aliases[k])
                           \/ StrContains(query_clean, merchants[i].aliases[k])
  IN  IF \E i \in 1..Len(merchants) : ExactKey(i)
      THEN FirstIndex(Len(merchants), ExactKey)
      ELSE IF \E i \in 1..Len(merchants) : ExactAlias(i)
      THEN FirstIndex(Len(merchants), ExactAlias)
      ELSE FirstIndex(Len(merchants), PartialAlias)

(* MerchantIndexIn as one pass over the table that takes the first entry   *)
(* any of the four tests accepts                                           *)
MerchantIndexInOnePass(merchants, query_lower, query_clean) ==
  LET Accepts(i) == \/ merchants[i].key = query_lower
                    \/ merchants[i].key = query_clean
                    \/ StrContains(query_lower, merchants[i].key)
                    \/ StrContains(query_clean, merchants[i].key)
                    \/ InList(query_lower, merchants[i].aliases)
                    \/ InList(query_clean, merchants[i].aliases)
                    \/ \E k \in 1..Len(merchants[i].aliases) :
                         \/ StrContains(query_lower, merchants[i].aliases[k])
                         \/ StrContains(query_clean, merchants[i].aliases[k])
  IN  FirstIndex(Len(merchants), Accepts)

(* The four passes of resolve_merchant_query over the known-merchant       *)
(* table: the index of the entry returned, 0 when no entry is returned.    *)
(* Keys and aliases are never written, so the index depends on the query   *)
(* alone.                                                                  *)
MerchantIndexIn(merchants, query_lower, query_clean) ==
  LET ExactKey(i)     == \/ merchants[i].key = query_lower
                         \/ merchants[i].key = query_clean
      PartialKey(i)   == \/ StrContains(query_lower, merchants[i].key)
                         \/ StrContains(query_clean, merchants[i].key)
      ExactAlias(i)   == \/ InList(query_lower, merchants[i].aliases)
                         \/ InList(query_clean, merchants[i].aliases)
      PartialAlias(i) == \E k \in 1..Len(merchants[i].aliases) :
                           \/ StrContains(query_lower, merchants[i].aliases[k])
                           \/ StrContains(query_clean, merchants[i].aliases[k])
  IN  IF \E i \in 1..Len(merchants) : ExactKey(i)
      THEN FirstIndex(Len(merchants), ExactKey)
      ELSE IF \E i \in 1..Len(merchants) : PartialKey(i)
      THEN FirstIndex(Len(merchants), PartialKey)
      ELSE IF \E i \in 1..Len(merchants) : ExactAlias(i)
      THEN FirstIndex(Len(merchants), ExactAlias)
      ELSE FirstIndex(Len(merchants), PartialAlias)

(* query_clean is worked out from query_lower *)
MerchantIndexOf(query_lower) ==
  MerchantIndexIn(KNOWN_MERCHANTS, query_lower, StrStrip(RemoveNoise(query_lower, 1)))

MerchantIndex(query) == MerchantIndexOf(QueryLower(query))

(* The part of a resolution that depends on the query alone, worked out    *)
(* once for each query of the model.                                       *)
Resolution(query_lower) ==
  [index |-> MerchantIndexOf(query_lower),
   fallback |-> normalize_category_name(query_lower)]

ResolutionOf == [q \in Queries |-> Resolution(QueryLower(q))]

ResolutionIn(table, query) ==
  IF query \in DOMAIN table THEN table[query] ELSE Resolution(QueryLower(query))

(* ResolveWith giving a blank fallback category no entry in the list *)
ResolveWithoutBlankCategory(query, categories, resolution) ==
  IF resolution.index > 0
  THEN [entry |-> resolution.index,
        merchant_name |-> KNOWN_MERCHANTS[resolution.index].merchant_name,
        mcc |-> KNOWN_MERCHANTS[resolution.index].mcc,
        normalized_categories |-> categories[resolution.index]]
  ELSE [entry |-> 0,
        merchant_name |-> query,
        mcc |-> {},
        normalized_categories |-> IF resolution.fallback = "" THEN <<>>
                                  ELSE <<resolution.fallback>>]

(* resolve_merchant_query against the table as it stands (`categories` is  *)
(* the normalized_categories list of every table entry).  `entry` is the   *)
(* table entry the returned mapping IS (the function returns the table's   *)
(* own object), 0 for a freshly built mapping.                             *)
ResolveWith(query, categories, resolution) ==
  IF resolution.index > 0
  THEN [entry |-> resolution.index,
        merchant_name |-> KNOWN_MERCHANTS[resolution.index].merchant_name,
        mcc |-> KNOWN_MERCHANTS[resolution.index].mcc,
        normalized_categories |-> categories[resolution.index]]
  ELSE [entry |-> 0,
        merchant_name |-> query,
        mcc |-> {},
        normalized_categories |-> <<resolution.fallback>>]

resolve_merchant_query(query, categories) ==
  ResolveWith(query, categories, ResolutionIn(ResolutionOf, query))

(* get_categories_for_mcc knowing no MCC *)
CategoriesOfUnknownMcc(mcc) == <<>>

(* MCC_TO_CATEGORY.get(mcc, []) *)
get_categories_for_mcc(mcc) ==
  IF mcc \in DOMAIN MCC_TO_CATEGORY THEN MCC_TO_CATEGORY[mcc] ELSE <<>>

(* set(xs) for a list xs *)
ListSet(xs) == {xs[i] : i \in 1..Len(xs)}

(* query_categories arrives as list(set(...)), which the model keeps as    *)
(* the set                                                                 *)
match_categories(rule_categories, query_categories) ==
  ListSet(rule_categories) \cap query_categories # {}

(***************************************************************************)
(* valuation.py: reward valuation                                          *)
(***************************************************************************)

(* PointValue falling back to the table's default entry *)
PointValueOrDefault(values, key, default) ==
  IF key \in DOMAIN values THEN values[key] ELSE values["DEFAULT"]

(* a reward program is None ({}) or a singleton {[id, base_point_value_cents]} *)
(* POINT_VALUES.get(key, default) *)
PointValue(values, key, default) ==
  IF key \in DOMAIN values THEN values[key] ELSE default

get_point_value(reward_program) ==
  IF reward_program = {} THEN POINT_VALUES["DEFAULT"]
  ELSE PointValue(POINT_VALUES, StrUpper((CHOOSE p \in reward_program : TRUE).id),
                  (CHOOSE p \in reward_program : TRUE).base_point_value_cents)

compute_effective_rate(earning_rule, reward_program) ==
  IF earning_rule.reward_type = "cashback_percent"
  THEN earning_rule.multiplier
  ELSE IF earning_rule.reward_type \in {"points_per_dollar", "miles_per_dollar", "hybrid"}
  THEN RMul(earning_rule.multiplier, get_point_value(reward_program))
  ELSE RMul(earning_rule.multiplier, POINT_VALUES["DEFAULT"])

(* AssumedBlendedRate with the earnings at the bonus rate taken off the    *)
(* earnings at the base rate                                               *)
AssumedBlendedRateLosingBonus(cap_amount, effective_rate, base_rate) ==
  LET assumed_spend == RMul(cap_amount, RInt(2))
      high_rate_earnings == RMul(cap_amount, effective_rate)
      remaining_spend == RSub(assumed_spend, cap_amount)
      base_rate_earnings == RMul(remaining_spend, base_rate)
  IN  RDiv(RSub(base_rate_earnings, high_rate_earnings), assumed_spend)

(* the blended rate when spending_amount is 0: the user is assumed to      *)
(* spend twice the cap.  A cap amount of 0 makes assumed_spend 0 and the   *)
(* division raises.                                                        *)
AssumedBlendedRate(cap_amount, effective_rate, base_rate) ==
  LET assumed_spend == RMul(cap_amount, RInt(2))
      high_rate_earnings == RMul(cap_amount, effective_rate)
      remaining_spend == RSub(assumed_spend, cap_amount)
      base_rate_earnings == RMul(remaining_spend, base_rate)
  IN  RDiv(RAdd(high_rate_earnings, base_rate_earnings), assumed_spend)

(* ExceededBlendedRate with the base rate paid on the whole spending *)
ExceededBlendedRateOnAllSpending(cap_amount, effective_rate, base_rate, spending_amount) ==
  LET high_rate_earnings == RMul(cap_amount, effective_rate)
      base_rate_earnings == RMul(spending_amount, base_rate)
  IN  RDiv(RAdd(high_rate_earnings, base_rate_earnings), spending_amount)

(* the blended rate when spending_amount exceeds the cap *)
ExceededBlendedRate(cap_amount, effective_rate, base_rate, spending_amount) ==
  LET high_rate_earnings == RMul(cap_amount, effective_rate)
      remaining_spend == RSub(spending_amount, cap_amount)
      base_rate_earnings == RMul(remaining_spend, base_rate)
  IN  RDiv(RAdd(high_rate_earnings, base_rate_earnings), spending_amount)

(* CapExceeded with >= for > *)
CapReached(spending_amount, cap_amount) == RLeq(cap_amount, spending_amount)

(* spending_amount > cap_amount *)
CapExceeded(spending_amount, cap_amount) == RLess(cap_amount, spending_amount)

(* A note is the formatted string of the code, kept as the values it       *)
(* prints: which of the three texts, the cap amount to 0 decimals, the     *)
(* period, and the blended rate to 2 decimals where the text has one.      *)
CapNote(text, cap, blended_rate) ==
  [text |-> text,
   cap_amount |-> FormatFixed(cap.amount_dollars, 0),
   period |-> cap.period,
   blended_rate |-> {FormatFixed(r, 2) : r \in blended_rate}]

(* return blended_rate, notes: the rate with the one note that prints it. *)
(* When the division of the blended rate raised, no note is built and the  *)
(* exception leaves apply_cap_penalty.                                     *)
Blended(text, cap, blended_rate) ==
  IF blended_rate = ZeroDivisionError THEN ZeroDivisionError
  ELSE [rate |-> blended_rate, notes |-> <<CapNote(text, cap, {blended_rate})>>]

(* the cap of the smallest amount, the first of them *)
SmallestCap(caps) ==
  caps[CHOOSE i \in 1..Len(caps) :
         \A j \in 1..Len(caps) :
           \/ RLess(caps[i].amount_dollars, caps[j].amount_dollars)
           \/ caps[i].amount_dollars = caps[j].amount_dollars /\ i <= j]

(* apply_cap_penalty honouring the cap of the smallest amount *)
ApplySmallestCap(effective_rate, caps, spending_amount, base_rate) ==
  IF Len(caps) = 0 THEN [rate |-> effective_rate, notes |-> <<>>]
  ELSE
    IF spending_amount = RInt(0)
    THEN Blended("Spending cap (assumes spending exceeds cap)", SmallestCap(caps),
                 AssumedBlendedRate(SmallestCap(caps).amount_dollars, effective_rate,
                                    base_rate))
    ELSE IF CapExceeded(spending_amount, SmallestCap(caps).amount_dollars)
    THEN Blended("Spending cap exceeded", SmallestCap(caps),
                 ExceededBlendedRate(SmallestCap(caps).amount_dollars, effective_rate,
                                     base_rate, spending_amount))
    ELSE [rate  |-> effective_rate,
          notes |-> <<CapNote("Spending cap (within limit)", SmallestCap(caps), {})>>]

(* the rate after the cap and the notes, or the exception raised: only     *)
(* caps[0] is looked at                                                    *)
apply_cap_penalty(effective_rate, caps, spending_amount, base_rate) ==
  IF Len(caps) = 0 THEN [rate |-> effective_rate, notes |-> <<>>]
  ELSE
    IF spending_amount = RInt(0)
    THEN Blended("Spending cap (assumes spending exceeds cap)", caps[1],
                 AssumedBlendedRate(caps[1].amount_dollars, effective_rate, base_rate))
    ELSE IF CapExceeded(spending_amount, caps[1].amount_dollars)
    THEN Blended("Spending cap exceeded", caps[1],
                 ExceededBlendedRate(caps[1].amount_dollars, effective_rate,
                                     base_rate, spending_amount))
    ELSE [rate  |-> effective_rate,
          notes |-> <<CapNote("Spending cap (within limit)", caps[1], {})>>]

(***************************************************************************)
(* Catalog data the model draws from: cards and earning rules as the       *)
(* issuer scrapers build them                                              *)
(***************************************************************************)
ChaseUR == [id |-> "chase_ur", base_point_value_cents |-> Rat(1, 100)]
DiscoverCashback == [id |-> "discover_cashback", base_point_value_cents |-> Rat(1, 100)]

SapphireCard ==
  [id |-> "chase_sapphire_preferred", issuer |-> [name |-> "Chase"],
   name |-> "Chase Sapphire Preferred", network |-> "visa", type |-> "points_per_dollar",
   reward_program |-> {ChaseUR}, is_business_card |-> FALSE]
BlueCashCard ==
  [id |-> "amex_blue_cash_preferred", issuer |-> [name |-> "American Express"],
   name |-> "Blue Cash Preferred", network |-> "amex", type |-> "cashback_percent",
   reward_program |-> {}, is_business_card |-> FALSE]
DiscoverItCard ==
  [id |-> "discover_it_cash_back", issuer |-> [name |-> "Discover"],
   name |-> "Discover it Cash Back", network |-> "discover", type |-> "cashback_percent",
   reward_program |-> {DiscoverCashback}, is_business_card |-> FALSE]
InkCashCard ==
  [id |-> "chase_ink_business_cash", issuer |-> [name |-> "Chase"],
   name |-> "Ink Business Cash", network |-> "visa", type |-> "cashback_percent",
   reward_program |-> {}, is_business_card |-> TRUE]


Rule(card_id, description, categories, mccs, names, multiplier, reward_type, caps, rotating) ==
  [card_id |-> card_id, description |-> description, merchant_categories |-> categories,
   mcc_list |-> mccs, merchant_names |-> names, multiplier |-> multiplier,
   reward_type |-> reward_type, caps |-> caps, stacking_rules |-> {},
   is_rotating |-> rotating, is_intro_offer_only |-> FALSE]

Cap(amount, period) == [amount_dollars |-> RInt(amount), period |-> period]

RulePool ==
  << Rule("chase_sapphire_preferred", "4x points on groceries", <<"groceries">>, <<>>, <<>>,
          RInt(4), "points_per_dollar", <<>>, FALSE),
     Rule("amex_blue_cash_preferred", "6% cash back at U.S. supermarkets", <<"groceries">>,
          <<>>, <<>>, RInt(6), "cashback_percent", <<Cap(6000, "year")>>, FALSE),
     Rule("amex_blue_cash_preferred", "3.5% cash back at Walmart and grocery stores", <<>>,
          <<"5411">>, <<"Walmart">>, Rat(7, 2), "cashback_percent", <<>>, FALSE),
     Rule("chase_ink_business_cash", "3% cash back on groceries and gas",
          <<"groceries", "gas">>, <<>>, <<>>, RInt(3), "cashback_percent", <<>>, FALSE),
     Rule("retired_card", "10% cash back on groceries", <<"groceries">>, <<>>, <<>>,
          RInt(10), "cashback_percent", <<>>, FALSE),
     Rule("discover_it_cash_back", "5% cash back in rotating categories",
          <<"gas", "streaming">>, <<>>, <<>>, RInt(5), "cashback_percent",
          <<Cap(1500, "quarter")>>, TRUE) >>

AllCards == <<SapphireCard, BlueCashCard, DiscoverItCard, InkCashCard>>

(***************************************************************************)
(* engine.py: the recommendation engine                                    *)
(***************************************************************************)

(* card_dict = {card.id: card for card in all_cards}: the last card of an  *)
(* id is the one kept; 0 when the id is not a key                          *)
CardIndex(all_cards, card_id) ==
  IF \E i \in 1..Len(all_cards) : all_cards[i].id = card_id
  THEN CHOOSE i \in 1..Len(all_cards) :
         /\ all_cards[i].id = card_id
         /\ \A j \in (i + 1)..Len(all_cards) : all_cards[j].id # card_id
  ELSE 0

(* RuleMatches without the MCC test *)
RuleMatchesWithoutMcc(rule, merchant_mapping, resolved_categories) ==
  LET category_match == ListSet(rule.merchant_categories) \cap resolved_categories # {}
      name == StrLower(merchant_mapping.merchant_name)
      merchant_match ==
        /\ merchant_mapping.merchant_name # ""
        /\ \E k \in 1..Len(rule.merchant_names) :
             \/ StrContains(name, StrLower(rule.merchant_names[k]))
             \/ StrContains(StrLower(rule.merchant_names[k]), name)
  IN  category_match \/ merchant_match

(* the category, MCC and merchant-name tests of the matching loop *)
RuleMatches(rule, merchant_mapping, resolved_categories) ==
  LET category_match == match_categories(rule.merchant_categories, resolved_categories)
      mcc_match == \E mcc \in merchant_mapping.mcc :
                     mcc # "" /\ InList(mcc, rule.mcc_list)
      name == StrLower(merchant_mapping.merchant_name)
      merchant_match ==
        /\ merchant_mapping.merchant_name # ""
        /\ \E k \in 1..Len(rule.merchant_names) :
             \/ StrContains(name, StrLower(rule.merchant_names[k]))
             \/ StrContains(StrLower(rule.merchant_names[k]), name)
  IN  category_match \/ mcc_match \/ merchant_match

(* the CardScore built for rule number i of the catalog from what         *)
(* apply_cap_penalty returned; rule_index stands for the identity of the   *)
(* rule object the score refers to                                         *)
BuildScore(card, rule, i, capped) ==
  LET unit == IF rule.reward_type = "cashback_percent" THEN "% cashback"
              ELSE IF rule.reward_type = "points_per_dollar" THEN "x points"
              ELSE IF rule.reward_type = "miles_per_dollar" THEN "x miles"
              ELSE IF rule.reward_type = "hybrid" THEN "x rewards"
              ELSE "x"
      flag_notes ==
        (IF rule.is_rotating
         THEN << [text |-> "Rotating category - may require activation"] >> ELSE <<>>)
        \o (IF rule.is_intro_offer_only
            THEN << [text |-> "Introductory offer - limited time"] >> ELSE <<>>)
        \o (IF rule.stacking_rules # {} /\ rule.stacking_rules # {""}
            THEN << [text |-> "Note", stacking_rules |-> rule.stacking_rules] >> ELSE <<>>)
  IN  [card |-> card,
       effective_rate_cents_per_dollar |-> capped.rate,
       matching_rule |-> rule,
       rule_index |-> i,
       explanation |-> [card_name |-> card.name,
                        multiplier |-> rule.multiplier,
                        unit |-> unit,
                        effective_percent |-> FormatFixed(capped.rate, 2),
                        description |-> rule.description],
       notes |-> capped.notes \o flag_notes]

(* the rate of the rule on the card, its base rate after the cap, and the  *)
(* cap penalty at spending_amount 0.  The caps of the catalogs' rules have *)
(* positive amounts, so the call returns.                                  *)
CappedRate(card, rule) ==
  apply_cap_penalty(compute_effective_rate(rule, card.reward_program),
                    rule.caps, RInt(0),
                    IF card.reward_program # {}
                    THEN get_point_value(card.reward_program)
                    ELSE RInt(1))

(* CappedRate worked out once for every card and rule the catalogs are     *)
(* drawn from                                                              *)
CappedRateOf ==
  [card \in ListSet(AllCards), rule \in ListSet(RulePool) |-> CappedRate(card, rule)]

ScoreRule(card, rule, i) == BuildScore(card, rule, i, CappedRateOf[card, rule])

(* the two `continue`s on the rule's card: not in card_dict (c = 0), or a  *)
(* business card                                                           *)
Admitted(all_cards, c) == c # 0 /\ ~all_cards[c].is_business_card

(* the matching loop over all_rules, from rule number i on *)
RECURSIVE CandidateScores(_, _, _, _, _)
CandidateScores(all_cards, all_rules, merchant_mapping, resolved_categories, i) ==
  IF i > Len(all_rules) THEN <<>>
  ELSE
    (IF Admitted(all_cards, CardIndex(all_cards, all_rules[i].card_id))
        /\ RuleMatches(all_rules[i], merchant_mapping, resolved_categories)
     THEN <<ScoreRule(all_cards[CardIndex(all_cards, all_rules[i].card_id)],
                      all_rules[i], i)>>
     ELSE <<>>)
    \o CandidateScores(all_cards, all_rules, merchant_mapping, resolved_categories, i + 1)

(* InsertByRate with x put in front of the elements of equal rate *)
RECURSIVE InsertByRateUnstable(_, _)
InsertByRateUnstable(sorted, x) ==
  IF sorted = <<>> THEN <<x>>
  ELSE IF RLeq(Head(sorted).effective_rate_cents_per_dollar,
               x.effective_rate_cents_per_dollar)
       THEN <<x>> \o sorted
       ELSE <<Head(sorted)>> \o InsertByRateUnstable(Tail(sorted), x)

(* list.sort(key=rate, reverse=True): a stable sort, equal keys keep their *)
(* order.  Insert x behind every element whose rate is not lower.          *)
RECURSIVE InsertByRate(_, _)
InsertByRate(sorted, x) ==
  IF sorted = <<>> THEN <<x>>
  ELSE IF RLess(Head(sorted).effective_rate_cents_per_dollar,
                x.effective_rate_cents_per_dollar)
       THEN <<x>> \o sorted
       ELSE <<Head(sorted)>> \o InsertByRate(Tail(sorted), x)

RECURSIVE SortByRate(_, _)
SortByRate(scores, n) ==
  IF n = 0 THEN <<>> ELSE InsertByRate(SortByRate(scores, n - 1), scores[n])

Sorted(scores) == SortByRate(scores, Len(scores))

(* the last n elements of xs for the first n *)
Suffix(xs, n) ==
  IF n >= 0 THEN SubSeq(xs, (IF n < Len(xs) THEN Len(xs) - n ELSE 0) + 1, Len(xs))
  ELSE SubSeq(xs, 1, IF Len(xs) + n > 0 THEN Len(xs) + n ELSE 0)

(* xs[:n] *)
Prefix(xs, n) ==
  IF n >= 0 THEN SubSeq(xs, 1, IF n < Len(xs) THEN n ELSE Len(xs))
  ELSE SubSeq(xs, 1, IF Len(xs) + n > 0 THEN Len(xs) + n ELSE 0)

(* ResolvedCategories taken before the MCC categories are merged in *)
ResolvedCategoriesUnmerged(merchant_mapping) ==
  ListSet(merchant_mapping.normalized_categories)

(* list(set(resolved_categories)) is kept as the set: the order of the     *)
(* list is the iteration order of the set.                                 *)
ResolvedCategories(merchant_mapping) ==
  LET mcc_categories ==
        IF \E mcc \in merchant_mapping.mcc : mcc # ""
        THEN get_categories_for_mcc(CHOOSE mcc \in merchant_mapping.mcc : TRUE)
        ELSE <<>>
  IN  ListSet(merchant_mapping.normalized_categories \o mcc_categories)

(* OverallExplanation naming the last of the returned candidates *)
ExplanationOfLast(query, resolved_categories, top_cards) ==
  IF Len(top_cards) = 0
  THEN [text |-> "No specific rewards found", query |-> query]
  ELSE [text |-> "offers the best value",
        query |-> query,
        categories |-> resolved_categories,
        best_card |-> top_cards[Len(top_cards)].card.name,
        best_rate |-> FormatFixed(top_cards[Len(top_cards)].effective_rate_cents_per_dollar, 2),
        other |-> {}]

(* the overall explanation: the fallback text, or the text naming the top  *)
(* card, its rate to 2 decimals and the runner-up                          *)
OverallExplanation(query, resolved_categories, top_cards) ==
  IF Len(top_cards) = 0
  THEN [text |-> "No specific rewards found", query |-> query]
  ELSE [text |-> "offers the best value",
        query |-> query,
        categories |-> resolved_categories,
        best_card |-> top_cards[1].card.name,
        best_rate |-> FormatFixed(top_cards[1].effective_rate_cents_per_dollar, 2),
        other |-> IF Len(top_cards) > 1
                  THEN {[card |-> top_cards[2].card.name,
                         rate |-> FormatFixed(top_cards[2].effective_rate_cents_per_dollar, 2)]}
                  ELSE {}]

(* The ComputedRecommendation returned by find_best_cards_for_query when   *)
(* the known-merchant table holds `categories`.                            *)
ComputedRecommendation(query, resolved_categories, top_cards) ==
  [merchant_query |-> query,
   resolved_categories |-> resolved_categories,
   candidate_cards |-> top_cards,
   explanation |-> OverallExplanation(query, resolved_categories, top_cards)]

(* the matching loop on the resolved categories *)
Candidates(all_cards, all_rules, merchant_mapping) ==
  CandidateScores(all_cards, all_rules, merchant_mapping,
                  ResolvedCategories(merchant_mapping), 1)

(* find_best_cards_for_query from the resolution on *)
Recommend(query, all_cards, all_rules, max_results, merchant_mapping) ==
  ComputedRecommendation(query, ResolvedCategories(merchant_mapping),
                         Prefix(Sorted(Candidates(all_cards, all_rules, merchant_mapping)),
                                max_results))

find_best_cards_for_query(query, all_cards, all_rules, max_results, categories) ==
  Recommend(query, all_cards, all_rules, max_results,
            resolve_merchant_query(query, categories))

(* What the call leaves in the known-merchant table: the mapping returned  *)
(* by resolve_merchant_query is the table's own entry, and                 *)
(* resolved_categories.extend(mcc_categories) appends to that entry's      *)
(* normalized_categories list in place.                                    *)
CategoriesAfter(categories, merchant_mapping) ==
  IF merchant_mapping.entry > 0 /\ \E mcc \in merchant_mapping.mcc : mcc # ""
  THEN [categories EXCEPT ![merchant_mapping.entry] =
          @ \o get_categories_for_mcc(CHOOSE mcc \in merchant_mapping.mcc : TRUE)]
  ELSE categories

CategoriesAfterQuery(query, categories) ==
  CategoriesAfter(categories, resolve_merchant_query(query, categories))

(***************************************************************************)
(* rule_engine.py: RuleEngine, the best single rule of one card            *)
(***************************************************************************)

(* RuleEngine._rule_priority *)
rule_priority(rule) ==
  Len(rule.merchant_categories) * 10
  + Len(rule.merchant_names) * 20
  + Len(rule.mcc_list) * 15
  + (IF Len(rule.caps) > 0 THEN 5 ELSE 0)
  - (IF rule.is_rotating THEN 10 ELSE 0)

(* sorted(rules, key=priority, reverse=True) is stable: rules of equal     *)
(* priority keep their order.  The sorted list is kept as the list of the  *)
(* rules' positions in `rules`; insert position i behind every position    *)
(* whose rule has a priority that is not lower.                            *)
RECURSIVE InsertByPriority(_, _, _)
InsertByPriority(rules, sorted, i) ==
  IF sorted = <<>> THEN <<i>>
  ELSE IF rule_priority(rules[Head(sorted)]) < rule_priority(rules[i])
       THEN <<i>> \o sorted
       ELSE <<Head(sorted)>> \o InsertByPriority(rules, Tail(sorted), i)

RECURSIVE SortByPriority(_, _)
SortByPriority(rules, n) ==
  IF n = 0 THEN <<>> ELSE InsertByPriority(rules, SortByPriority(rules, n - 1), n)

(* the rules left in the order they were given *)
UnsortedRules(rules) == [i \in 1..Len(rules) |-> i]

(* RuleEngine.__init__: self._sorted_rules *)
SortedRules(rules) == SortByPriority(rules, Len(rules))

(* the three tests of find_applicable_rule on one rule; merchant_name and  *)
(* mcc are None ({}) or a singleton                                        *)
RuleApplies(rule, categories, merchant_name, mcc) ==
  LET category_match == ListSet(rule.merchant_categories) \cap ListSet(categories) # {}
      merchant_match ==
        \E name \in merchant_name :
          /\ name # ""
          /\ Len(rule.merchant_names) > 0
          /\ \E k \in 1..Len(rule.merchant_names) :
               \/ StrContains(StrLower(name), StrLower(rule.merchant_names[k]))
               \/ StrContains(StrLower(rule.merchant_names[k]), StrLower(name))
      mcc_match == \E code \in mcc : code # "" /\ InList(code, rule.mcc_list)
  IN  category_match \/ merchant_match \/ mcc_match

(* the loop over self._sorted_rules: the first rule that applies, with its *)
(* effective rate on the card, or None ({})                                *)
FirstApplicable(rules, sorted_rules, card, categories, merchant_name, mcc) ==
  LET Applies(k) == RuleApplies(rules[sorted_rules[k]], categories, merchant_name, mcc)
  IN  IF \E k \in 1..Len(sorted_rules) : Applies(k)
      THEN {[rule |-> rules[sorted_rules[FirstIndex(Len(sorted_rules), Applies)]],
             rule_index |-> sorted_rules[FirstIndex(Len(sorted_rules), Applies)],
             effective_rate |->
               compute_effective_rate(
                 rules[sorted_rules[FirstIndex(Len(sorted_rules), Applies)]],
                 card.reward_program)]}
      ELSE {}

(* the three tests of get_all_applicable_rules on one rule: the name test  *)
(* looks for a rule name inside the merchant name only                     *)
RuleAppliesInAll(rule, categories, merchant_name, mcc) ==
  LET category_match == ListSet(rule.merchant_categories) \cap ListSet(categories) # {}
      merchant_match ==
        \E name \in merchant_name :
          /\ name # ""
          /\ Len(rule.merchant_names) > 0
          /\ \E k \in 1..Len(rule.merchant_names) :
               StrContains(StrLower(name), StrLower(rule.merchant_names[k]))
      mcc_match == \E code \in mcc : code # "" /\ InList(code, rule.mcc_list)
  IN  category_match \/ merchant_match \/ mcc_match

(* the loop of get_all_applicable_rules over self._sorted_rules, from      *)
(* position k on: the (rule, effective_rate) pairs appended                *)
RECURSIVE ApplicableFrom(_, _, _, _, _, _, _)
ApplicableFrom(rules, sorted_rules, card, categories, merchant_name, mcc, k) ==
  IF k > Len(sorted_rules) THEN <<>>
  ELSE (IF RuleAppliesInAll(rules[sorted_rules[k]], categories, merchant_name, mcc)
        THEN <<[rule |-> rules[sorted_rules[k]],
                rule_index |-> sorted_rules[k],
                effective_rate |-> compute_effective_rate(rules[sorted_rules[k]],
                                                          card.reward_program)]>>
        ELSE <<>>)
       \o ApplicableFrom(rules, sorted_rules, card, categories, merchant_name, mcc, k + 1)

(* applicable.sort(key=rate, reverse=True): stable, as InsertByRate *)
RECURSIVE InsertApplicable(_, _)
InsertApplicable(sorted, x) ==
  IF sorted = <<>> THEN <<x>>
  ELSE IF RLess(Head(sorted).effective_rate, x.effective_rate)
       THEN <<x>> \o sorted
       ELSE <<Head(sorted)>> \o InsertApplicable(Tail(sorted), x)

RECURSIVE SortApplicable(_, _)
SortApplicable(applicable, n) ==
  IF n = 0 THEN <<>> ELSE InsertApplicable(SortApplicable(applicable, n - 1), applicable[n])

(* engine.get_all_applicable_rules(categories, merchant_name, mcc) on the  *)
(* engine's sorted rules                                                   *)
AllApplicable(rules, sorted_rules, card, categories, merchant_name, mcc) ==
  SortApplicable(ApplicableFrom(rules, sorted_rules, card, categories, merchant_name, mcc, 1),
                 Len(ApplicableFrom(rules, sorted_rules, card, categories, merchant_name,
                                    mcc, 1)))

(* RuleEngine(rules, card).get_all_applicable_rules(categories, merchant_name, mcc) *)
get_all_applicable_rules(rules, card, categories, merchant_name, mcc) ==
  AllApplicable(rules, SortedRules(rules), card, categories, merchant_name, mcc)

(* RuleEngine(rules, card).find_applicable_rule(categories, merchant_name, mcc) *)
find_applicable_rule(rules, card, categories, merchant_name, mcc) ==
  FirstApplicable(rules, SortedRules(rules), card, categories, merchant_name, mcc)

CardCatalogs == {AllCards}

(* every list of at most n of the rules k, k+1, ... of the pool, in the    *)
(* order of the pool                                                       *)
RECURSIVE RuleLists(_, _)
RuleLists(k, n) ==
  IF k > Len(RulePool) \/ n = 0 THEN {<<>>}
  ELSE RuleLists(k + 1, n) \cup {<<RulePool[k]>> \o l : l \in RuleLists(k + 1, n - 1)}

Reverse(l) == [i \in 1..Len(l) |-> l[Len(l) + 1 - i]]

(* the rule catalogs: at most MaxRules rules of the pool, in the order of  *)
(* the pool or in the reverse order                                        *)
RuleCatalogs == RuleLists(1, MaxRules) \cup {Reverse(l) : l \in RuleLists(1, MaxRules)}

MAX_RECOMMENDATIONS == 5
MaxResultsValues == {0, 1, 2}

(* the arguments apply_cap_penalty is applied to *)
CapPool == {Cap(amount, period) : amount \in {0, 1000, 1500}, period \in {"quarter", "year"}}
RECURSIVE CapLists(_)
CapLists(n) ==
  IF n = 0 THEN {<<>>}
  ELSE CapLists(n - 1) \cup
       {Append(cs, c) : cs \in {l \in CapLists(n - 1) : Len(l) = n - 1}, c \in CapPool}
EffectiveRates == {Rat(17, 500), Rat(17, 250), RInt(1), RInt(3), RInt(5), RInt(6)}
BaseRates == {Rat(17, 1000), RInt(1), RInt(2), RInt(3)}
SpendingAmounts == {RInt(0), RInt(500), RInt(1000), Rat(100001, 100), RInt(1500), RInt(3000)}

(* the catalog the n-th scrape saves: the n-th snapshot *)
SnapshotCards(n) == SubSeq(AllCards, 1, IF n < Len(AllCards) THEN n ELSE Len(AllCards))
SnapshotRules(n) == SubSeq(RulePool, 1, IF n < Len(RulePool) THEN n ELSE Len(RulePool))

(***************************************************************************)
(* State                                                                   *)
(***************************************************************************)
Threads == {"handler", "scheduler"}

VARIABLES
  known_categories,  \* KNOWN_MERCHANTS[i].normalized_categories, for every entry i
  cards_cache,       \* _cards_cache of the web application: None or a list
  rules_cache,       \* _rules_cache of the web application: None or a list
  ncalls,            \* number of requests served
  call,              \* the last request: its arguments, locals and return value
  cap_call,          \* the last call of apply_cap_penalty: arguments and return value
  cards_file,        \* .data/cards.json: absent, or present with its text
  rules_file,        \* .data/rules.json: absent, or present with its text
  nsaved,            \* number of snapshots the scraper has saved
  pc,                \* where each thread stands
  frame              \* each thread's locals: force_refresh, how its scrape ended,
                     \* the lists being saved and the offset of the open handle,
                     \* cards, rules, the pair load_all_cards_and_rules returned
                     \* to it, and what its latest refresh and read have seen

vars == <<known_categories, cards_cache, rules_cache, ncalls, call, cap_call,
          cards_file, rules_file, nsaved, pc, frame>>

pipeline_vars == <<known_categories, ncalls, call>>
load_vars == <<cards_file, rules_file, nsaved, pc, frame>>

InitialCategories ==
  [i \in 1..Len(KNOWN_MERCHANTS) |-> KNOWN_MERCHANTS[i].normalized_categories]

Some(c) == CHOOSE x \in c : TRUE

(* a thread's locals.  before, quiet and after keep what the thread's      *)
(* latest refresh and read have seen: the two caches when the refresh      *)
(* began and whether no other thread has stored to a cache since (both     *)
(* until the scrape succeeds), and the threads whose failed refresh was    *)
(* over when the read was issued.                                          *)
EmptyFrame ==
  [force_refresh |-> FALSE, scrape |-> "none", all_cards |-> <<>>, all_rules |-> <<>>,
   offset |-> 0, cards |-> <<>>, rules |-> <<>>, returned |-> {},
   before |-> {}, quiet |-> TRUE, after |-> {}]

(* the entries of a list that json.dump hands to the file in one write():  *)
(* the text reaches the file in pieces of the writer's buffer              *)
(* (io.DEFAULT_BUFFER_SIZE bytes), and an entry here stands for half a     *)
(* buffer of JSON text                                                     *)
WriteSize == 2

(* the text of a catalog file, entry by entry: an entry of the list, with  *)
(* the comma or the closing bracket after it; "[]"; or bytes that are no   *)
(* entry (part of an entry, or the gap a write beyond the end of the file  *)
(* leaves)                                                                 *)
EntryText(item, closed) == [torn |-> FALSE, item |-> {item}, closed |-> closed]
EmptyListText == [torn |-> FALSE, item |-> {}, closed |-> TRUE]
TornText == [torn |-> TRUE, item |-> {}, closed |-> FALSE]

(* json.dump(list): the list stands for its JSON, since _card_to_dict and  *)
(* _dict_to_card, and _rule_to_dict and _dict_to_rule, give back every     *)
(* field a card and a rule have here                                       *)
JsonText(list) ==
  IF list = <<>> THEN <<EmptyListText>>
  ELSE [i \in 1..Len(list) |-> EntryText(list[i], i = Len(list))]

(* a catalog file: absent, or present with its text.  A file just opened   *)
(* with "w" is present and empty.                                          *)
AbsentFile == [exists |-> FALSE, text |-> <<>>]
UnreadableFile == [exists |-> TRUE, text |-> <<>>]
ReadableFile(content) == [exists |-> TRUE, text |-> JsonText(content)]

(* json.load accepts the text: entries with a comma after each but the     *)
(* last, the closing bracket after the last and nothing behind it          *)
Parses(text) ==
  /\ Len(text) > 0
  /\ \A i \in 1..Len(text) :
       /\ ~text[i].torn
       /\ text[i].closed <=> i = Len(text)
       /\ text[i].item = {} => Len(text) = 1

(* the list json.load gives for a text it accepts *)
JsonList(text) ==
  IF text = <<EmptyListText>> THEN <<>>
  ELSE [i \in 1..Len(text) |-> CHOOSE item \in text[i].item : TRUE]

(* "if file.exists(): ... json.load(f) ...": the list read, empty for an   *)
(* absent file, and whether the reading raised                             *)
ReadJson(file) ==
  [raised |-> file.exists /\ ~Parses(file.text),
   list |-> IF file.exists /\ Parses(file.text) THEN JsonList(file.text) ELSE <<>>]

(* DataManager.load_cards_and_rules run to completion: both lists start    *)
(* empty; an absent file is skipped; the first exception ends the reading  *)
(* and what was read until then is returned                                *)
load_cards_and_rules(cards_json, rules_json) ==
  <<ReadJson(cards_json).list,
    IF ReadJson(cards_json).raised THEN <<>> ELSE ReadJson(rules_json).list>>

(* the process after start-up: load_all_cards_and_rules() has loaded what  *)
(* the files hold and nothing is running (an initial scrape that start-up  *)
(* runs on an empty load is a refresh like the scheduler's, or has failed) *)
InitFiles(cards_json, rules_json) ==
  /\ known_categories = InitialCategories
  /\ cards_cache = {load_cards_and_rules(cards_json, rules_json)[1]}
  /\ rules_cache = {load_cards_and_rules(cards_json, rules_json)[2]}
  /\ ncalls = 0
  /\ call = [op |-> "none"]
  /\ cap_call = [op |-> "none"]
  /\ cards_file = cards_json
  /\ rules_file = rules_json
  /\ nsaved = 1
  /\ pc = [t \in Threads |-> "idle"]
  /\ frame = [t \in Threads |-> EmptyFrame]

InitWith(cards, rules) == InitFiles(ReadableFile(cards), ReadableFile(rules))

Init == \E cards \in CardCatalogs, rules \in RuleCatalogs : InitWith(cards, rules)

(***************************************************************************)
(* Recommendation requests on the loaded catalog                           *)
(***************************************************************************)

(* find_best_cards_for_query(query, cards, rules, max_results) on the      *)
(* loaded catalog, as the CLI and the /api/recommend endpoint of api.py    *)
(* call it.  The record of the call keeps the arguments, the locals        *)
(* merchant_mapping and candidate_scores (before the sort) and the value   *)
(* returned.                                                               *)
EngineCall(query, all_cards, all_rules, max_results, merchant_mapping) ==
  [op |-> "find_best_cards_for_query",
   query |-> query,
   max_results |-> max_results,
   merchant_mapping |-> merchant_mapping,
   candidate_scores |-> Candidates(all_cards, all_rules, merchant_mapping),
   recommendation |-> Recommend(query, all_cards, all_rules, max_results, merchant_mapping)]

FindBestCards(query, max_results) ==
  /\ ncalls < MaxCalls
  /\ call' = EngineCall(query, Some(cards_cache), Some(rules_cache), max_results,
                        resolve_merchant_query(query, known_categories))
  /\ known_categories' = CategoriesAfterQuery(query, known_categories)
  /\ ncalls' = ncalls + 1
  /\ UNCHANGED <<cards_cache, rules_cache, cap_call, load_vars>>

Next ==
  \E query \in Queries, max_results \in MaxResultsValues :
    FindBestCards(query, max_results)

Spec == Init /\ [][Next]_vars

(***************************************************************************)
(* apply_cap_penalty on its own                                            *)
(***************************************************************************)
InitCap ==
  /\ known_categories = InitialCategories
  /\ cards_cache = {AllCards}
  /\ rules_cache = {<<>>}
  /\ ncalls = 0
  /\ call = [op |-> "none"]
  /\ cards_file = ReadableFile(AllCards)
  /\ rules_file = ReadableFile(<<>>)
  /\ nsaved = 1
  /\ pc = [t \in Threads |-> "idle"]
  /\ frame = [t \in Threads |-> EmptyFrame]
  /\ \E effective_rate \in EffectiveRates, caps \in CapLists(MaxCaps),
        spending_amount \in SpendingAmounts, base_rate \in BaseRates :
       cap_call = [op |-> "called",
                   effective_rate |-> effective_rate,
                   caps |-> caps,
                   spending_amount |-> spending_amount,
                   base_rate |-> base_rate]

ApplyCapPenalty ==
  /\ cap_call.op = "called"
  /\ cap_call' = [op |-> "returned",
                  effective_rate |-> cap_call.effective_rate,
                  caps |-> cap_call.caps,
                  spending_amount |-> cap_call.spending_amount,
                  base_rate |-> cap_call.base_rate,
                  result |-> apply_cap_penalty(cap_call.effective_rate, cap_call.caps,
                                               cap_call.spending_amount,
                                               cap_call.base_rate)]
  /\ UNCHANGED <<cards_cache, rules_cache, pipeline_vars, load_vars>>

NextCap == ApplyCapPenalty

SpecCap == InitCap /\ [][NextCap]_vars

(***************************************************************************)
(* app.py: the /api/recommend endpoint with its filters                    *)
(***************************************************************************)
RewardTypeMap == ("cashback" :> "cashback_percent") @@ ("points" :> "points_per_dollar")
                 @@ ("miles" :> "miles_per_dollar")
NetworkMap == ("visa" :> "visa") @@ ("mastercard" :> "mastercard") @@ ("amex" :> "amex")
              @@ ("american express" :> "amex") @@ ("discover" :> "discover")

(* [x for x in xs if Keep(x)] *)
RECURSIVE Filter(_, _, _)
Filter(xs, Keep(_), i) ==
  IF i > Len(xs) THEN <<>>
  ELSE (IF Keep(xs[i]) THEN <<xs[i]>> ELSE <<>>) \o Filter(xs, Keep, i + 1)

(* a truthy Optional[str]: neither None nor "" *)
Given(opt) == opt # {} /\ opt # {""}

(* the "Apply filters" part of get_recommendation *)
ApplyFilters(candidate_cards, issuer, reward_type, network, include_business) ==
  LET Personal(cs) == ~cs.card.is_business_card
      ByIssuer(cs) == StrContains(StrLower(cs.card.issuer.name), StrLower(Some(issuer)))
      target_type == IF Given(reward_type) /\ StrLower(Some(reward_type)) \in DOMAIN RewardTypeMap
                     THEN {RewardTypeMap[StrLower(Some(reward_type))]} ELSE {}
      ByType(cs) == cs.card.type = Some(target_type)
      target_network == IF Given(network) /\ StrLower(Some(network)) \in DOMAIN NetworkMap
                        THEN {NetworkMap[StrLower(Some(network))]} ELSE {}
      ByNetwork(cs) == cs.card.network = Some(target_network)
      f0 == candidate_cards
      f1 == IF ~include_business THEN Filter(f0, Personal, 1) ELSE f0
      f2 == IF Given(issuer) THEN Filter(f1, ByIssuer, 1) ELSE f1
      f3 == IF target_type # {} THEN Filter(f2, ByType, 1) ELSE f2
      f4 == IF target_network # {} THEN Filter(f3, ByNetwork, 1) ELSE f3
  IN  f4

(* the RecommendationResponse of get_recommendation *)
RecommendationResponse(recommendation, filtered_cards) ==
  [merchant_query |-> recommendation.merchant_query,
   resolved_categories |-> recommendation.resolved_categories,
   candidate_cards |-> filtered_cards,
   explanation |-> recommendation.explanation]

RecommendFilters ==
  { [issuer |-> {}, reward_type |-> {}, network |-> {}],
    [issuer |-> {"chase"}, reward_type |-> {}, network |-> {}],
    [issuer |-> {}, reward_type |-> {"Cashback"}, network |-> {}],
    [issuer |-> {}, reward_type |-> {}, network |-> {"AMEX"}] }

RecommendQueries == {"groceries", "Walmart", "netflix", "gas station", "zzz", ""}

(* the loaded catalog holds every card and the first n rules of the pool *)
InitApp == \E n \in 1..Len(RulePool) : InitWith(AllCards, SnapshotRules(n))

(* the filters and the truncation applied to what the engine returned *)
Respond(recommendation, max_results, filters, include_business) ==
  RecommendationResponse(
    recommendation,
    Prefix(ApplyFilters(recommendation.candidate_cards, filters.issuer,
                        filters.reward_type, filters.network, include_business),
           max_results))

EndpointCall(query, max_results, filters, include_business, mapping, recommendation) ==
  [op |-> "get_recommendation",
   query |-> query,
   max_results |-> max_results,
   filters |-> filters,
   include_business |-> include_business,
   merchant_mapping |-> mapping,
   recommendation |-> recommendation,
   response |-> Respond(recommendation, max_results, filters, include_business)]

GetRecommendation(query, max_results, filters, include_business) ==
  /\ ncalls < MaxCalls
  /\ call' = EndpointCall(query, max_results, filters, include_business,
                          resolve_merchant_query(query, known_categories),
                          find_best_cards_for_query(query, Some(cards_cache),
                                                    Some(rules_cache), max_results * 2,
                                                    known_categories))
  /\ known_categories' = CategoriesAfterQuery(query, known_categories)
  /\ ncalls' = ncalls + 1
  /\ UNCHANGED <<cards_cache, rules_cache, cap_call, load_vars>>

NextApp ==
  \E query \in RecommendQueries, max_results \in {1, MAX_RECOMMENDATIONS},
     filters \in RecommendFilters,
     include_business \in BOOLEAN :
    GetRecommendation(query, max_results, filters, include_business)

SpecApp == InitApp /\ [][NextApp]_vars

(***************************************************************************)
(* app.py, data_manager.py, scraper_job.py: the catalog cache, read by the *)
(* request handlers while the scheduler thread or the refresh endpoint     *)
(* scrapes, saves and reloads it.  The two globals are read and written    *)
(* one at a time, the two files are opened, written and read one at a      *)
(* time, and nothing orders one thread's accesses against another's, so    *)
(* every access is a step of its own.                                      *)
(***************************************************************************)
SetFrame(t, f) == frame' = [frame EXCEPT ![t] = f]
Goto(t, label) == pc' = [pc EXCEPT ![t] = label]

(* the scrape step of thread t's latest refresh returned False or raised *)
ScrapeFailed(t) == frame[t].scrape \in {"false", "raised"}

(* a request handler calls load_all_cards_and_rules() *)
BeginRead(t) ==
  /\ t = "handler"
  /\ pc[t] = "idle"
  /\ SetFrame(t, [frame[t] EXCEPT
                    !.force_refresh = FALSE, !.cards = <<>>, !.rules = <<>>,
                    !.returned = {},
                    !.after = {u \in Threads : ScrapeFailed(u) /\ pc[u] = "idle"}])
  /\ Goto(t, "check_cards")
  /\ UNCHANGED <<cards_cache, rules_cache, pipeline_vars, cap_call,
                 cards_file, rules_file, nsaved>>

(* run_daily_refresh on the scheduler thread, refresh_data on the handler: *)
(* scrape_all_cards_and_rules() first                                      *)
BeginRefresh(t) ==
  /\ pc[t] = "idle"
  /\ nsaved < MaxSnapshots
  /\ frame' = [u \in Threads |->
                 IF u = t
                 THEN [EmptyFrame EXCEPT !.force_refresh = TRUE,
                                         !.before = {<<cards_cache, rules_cache>>}]
                 ELSE [frame[u] EXCEPT !.after = @ \ {t}]]
  /\ Goto(t, "scrape")
  /\ UNCHANGED <<cards_cache, rules_cache, pipeline_vars, cap_call,
                 cards_file, rules_file, nsaved>>

(* "if success: load_all_cards_and_rules(force_refresh=True)" with every   *)
(* outcome of the scrape reloading the catalog                             *)
RefreshReloadingAlways(scrape) == "check_cards"

(* "success = scrape_all_cards_and_rules()", "if success:                  *)
(* load_all_cards_and_rules(force_refresh=True)": where run_daily_refresh  *)
(* and refresh_data go on after the scrape; a False and an exception end   *)
(* in a log line or an HTTP 500                                            *)
refresh_data(scrape) == IF scrape = "true" THEN "check_cards" ELSE "idle"

(* scrape_all_cards_and_rules ends without having opened a file: nothing   *)
(* was scraped, the lists could not be converted or cards.json could not   *)
(* be opened (it returns False), or the scraper could not run (it raises)  *)
ScrapeFails(t) ==
  /\ pc[t] = "scrape"
  /\ \E scrape \in {"false", "raised"} :
       /\ SetFrame(t, [frame[t] EXCEPT !.scrape = scrape])
       /\ Goto(t, refresh_data(scrape))
  /\ UNCHANGED <<cards_cache, rules_cache, pipeline_vars, cap_call,
                 cards_file, rules_file, nsaved>>

(* the scrapers returned the next snapshot and save_cards_and_rules opens  *)
(* cards.json for writing: the file is truncated, and the handle stands at *)
(* the start of the file                                                   *)
OpenCards(t) ==
  /\ pc[t] = "scrape"
  /\ nsaved < MaxSnapshots
  /\ nsaved' = nsaved + 1
  /\ SetFrame(t, [frame[t] EXCEPT !.all_cards = SnapshotCards(nsaved + 1),
                                  !.all_rules = SnapshotRules(nsaved + 1),
                                  !.offset = 0])
  /\ cards_file' = UnreadableFile
  /\ Goto(t, "write_cards")
  /\ UNCHANGED <<cards_cache, rules_cache, pipeline_vars, cap_call, rules_file>>

(* the part of a text that the next write() of a handle at `offset`        *)
(* carries                                                                 *)
NextWrite(text, offset) ==
  SubSeq(text, offset + 1,
         IF offset + WriteSize < Len(text) THEN offset + WriteSize ELSE Len(text))

(* write() through a handle at `offset`: the part written replaces what    *)
(* the file holds there, whoever wrote it; what the file holds before and  *)
(* behind stays; a file that another open() has truncated in the meantime  *)
(* gets a gap up to the offset                                             *)
WriteAt(file, offset, part) ==
  LET end == IF Len(file.text) > offset + Len(part)
             THEN Len(file.text) ELSE offset + Len(part)
  IN  [exists |-> TRUE,
       text |-> [i \in 1..end |->
                   IF i > offset /\ i <= offset + Len(part) THEN part[i - offset]
                   ELSE IF i <= Len(file.text) THEN file.text[i]
                   ELSE TornText]]

(* what leaving the with block flushes when json.dump has raised on the    *)
(* way through `part`: nothing, or entries of the part and possibly a      *)
(* piece of the next one                                                   *)
Flushed(part) ==
  {SubSeq(part, 1, k) \o piece : k \in 0..(Len(part) - 1), piece \in {<<>>, <<TornText>>}}

(* json.dump(cards_data, f): one write() of the dump, and with the last    *)
(* one the end of the with block                                           *)
WriteCards(t) ==
  /\ pc[t] = "write_cards"
  /\ LET text == JsonText(frame[t].all_cards)
         part == NextWrite(text, frame[t].offset)
         done == frame[t].offset + Len(part) = Len(text)
     IN  /\ cards_file' = WriteAt(cards_file, frame[t].offset, part)
         /\ SetFrame(t, [frame[t] EXCEPT !.offset = IF done THEN 0 ELSE @ + Len(part)])
         /\ Goto(t, IF done THEN "open_rules" ELSE "write_cards")
  /\ UNCHANGED <<cards_cache, rules_cache, pipeline_vars, cap_call, rules_file, nsaved>>

(* rules.json is opened for writing and truncated *)
OpenRules(t) ==
  /\ pc[t] = "open_rules"
  /\ rules_file' = UnreadableFile
  /\ Goto(t, "write_rules")
  /\ UNCHANGED <<cards_cache, rules_cache, pipeline_vars, cap_call,
                 cards_file, nsaved, frame>>

(* json.dump(rules_data, f): one write() of the dump, and with the last    *)
(* one the end of the with block                                           *)
WriteRules(t) ==
  /\ pc[t] = "write_rules"
  /\ LET text == JsonText(frame[t].all_rules)
         part == NextWrite(text, frame[t].offset)
         done == frame[t].offset + Len(part) = Len(text)
     IN  /\ rules_file' = WriteAt(rules_file, frame[t].offset, part)
         /\ SetFrame(t, [frame[t] EXCEPT !.offset = IF done THEN 0 ELSE @ + Len(part)])
         /\ Goto(t, IF done THEN "save_metadata" ELSE "write_rules")
  /\ UNCHANGED <<cards_cache, rules_cache, pipeline_vars, cap_call, cards_file, nsaved>>

(* metadata.json is written, save_cards_and_rules returns and              *)
(* scrape_all_cards_and_rules returns True                                 *)
SaveMetadata(t) ==
  /\ pc[t] = "save_metadata"
  /\ SetFrame(t, [frame[t] EXCEPT !.scrape = "true",
                                  !.all_cards = <<>>, !.all_rules = <<>>,
                                  !.before = {}, !.quiet = TRUE])
  /\ Goto(t, refresh_data("true"))
  /\ UNCHANGED <<cards_cache, rules_cache, pipeline_vars, cap_call,
                 cards_file, rules_file, nsaved>>

(* the file a failing save leaves: when json.dump raises, the end of the   *)
(* with block flushes what the handle has buffered, at the handle's        *)
(* offset; when an open() raises, nothing is written                       *)
LeftBy(file, text, offset, dumping) ==
  IF ~dumping THEN {file}
  ELSE {IF flushed = <<>> THEN file ELSE WriteAt(file, offset, flushed) :
          flushed \in Flushed(NextWrite(text, offset))}

(* a write or an open of save_cards_and_rules raises: the exception is     *)
(* logged and raised again, scrape_all_cards_and_rules catches it and      *)
(* returns False.  The files stay as the save and the closing of the       *)
(* handle leave them.                                                      *)
SaveFails(t) ==
  /\ pc[t] \in {"write_cards", "open_rules", "write_rules", "save_metadata"}
  /\ cards_file' \in LeftBy(cards_file, JsonText(frame[t].all_cards), frame[t].offset,
                            pc[t] = "write_cards")
  /\ rules_file' \in LeftBy(rules_file, JsonText(frame[t].all_rules), frame[t].offset,
                            pc[t] = "write_rules")
  /\ SetFrame(t, [frame[t] EXCEPT !.scrape = "false", !.offset = 0,
                                  !.all_cards = <<>>, !.all_rules = <<>>])
  /\ Goto(t, refresh_data("false"))
  /\ UNCHANGED <<cards_cache, rules_cache, pipeline_vars, cap_call, nsaved>>

(* not force_refresh and _cards_cache is not None ... *)
CheckCards(t) ==
  /\ pc[t] = "check_cards"
  /\ Goto(t, IF ~frame[t].force_refresh /\ cards_cache # {}
             THEN "check_rules" ELSE "read_cards")
  /\ UNCHANGED <<cards_cache, rules_cache, pipeline_vars, cap_call,
                 cards_file, rules_file, nsaved, frame>>

(* ... and _rules_cache is not None *)
CheckRules(t) ==
  /\ pc[t] = "check_rules"
  /\ Goto(t, IF rules_cache # {} THEN "return_cards" ELSE "read_cards")
  /\ UNCHANGED <<cards_cache, rules_cache, pipeline_vars, cap_call,
                 cards_file, rules_file, nsaved, frame>>

(* return _cards_cache, _rules_cache: the first global is read ... *)
ReturnCards(t) ==
  /\ pc[t] = "return_cards"
  /\ SetFrame(t, [frame[t] EXCEPT !.cards = Some(cards_cache)])
  /\ Goto(t, "return_rules")
  /\ UNCHANGED <<cards_cache, rules_cache, pipeline_vars, cap_call,
                 cards_file, rules_file, nsaved>>

(* ... then the second, and the pair is returned *)
ReturnRules(t) ==
  /\ pc[t] = "return_rules"
  /\ SetFrame(t, [frame[t] EXCEPT !.rules = Some(rules_cache),
                                  !.returned = {<<frame[t].cards, Some(rules_cache)>>}])
  /\ Goto(t, "idle")
  /\ UNCHANGED <<cards_cache, rules_cache, pipeline_vars, cap_call,
                 cards_file, rules_file, nsaved>>

(* DataManager.load_cards_and_rules, "cards = []", "rules = []" and the    *)
(* reading of cards.json: json.load calls f.read(), which takes the file   *)
(* as it is at that moment (the handle sizes its buffer to the file and    *)
(* fills it with one read()).  When the reading raises, rules.json is not  *)
(* looked at and the two empty lists are returned.                         *)
ReadCards(t) ==
  /\ pc[t] = "read_cards"
  /\ SetFrame(t, [frame[t] EXCEPT !.cards = ReadJson(cards_file).list, !.rules = <<>>])
  /\ Goto(t, IF ReadJson(cards_file).raised THEN "store_cards" ELSE "read_rules")
  /\ UNCHANGED <<cards_cache, rules_cache, pipeline_vars, cap_call,
                 cards_file, rules_file, nsaved>>

(* the reading of rules.json; when it raises, the cards read and the empty *)
(* list of rules are returned                                              *)
ReadRules(t) ==
  /\ pc[t] = "read_rules"
  /\ SetFrame(t, [frame[t] EXCEPT !.rules = ReadJson(rules_file).list])
  /\ Goto(t, "store_cards")
  /\ UNCHANGED <<cards_cache, rules_cache, pipeline_vars, cap_call,
                 cards_file, rules_file, nsaved>>

(* the frames after thread t has stored to a cache: t's is f, and a        *)
(* refresh of another thread that is running or has failed has not gone    *)
(* undisturbed                                                             *)
Stored(t, f) ==
  [u \in Threads |->
     IF u = t THEN f
     ELSE [frame[u] EXCEPT !.quiet = IF frame[u].before = {} THEN @ ELSE FALSE]]

(* _cards_cache = cards *)
StoreCards(t) ==
  /\ pc[t] = "store_cards"
  /\ cards_cache' = {frame[t].cards}
  /\ frame' = Stored(t, frame[t])
  /\ Goto(t, "store_rules")
  /\ UNCHANGED <<rules_cache, pipeline_vars, cap_call, cards_file, rules_file, nsaved>>

(* _rules_cache = rules; return cards, rules *)
StoreRules(t) ==
  /\ pc[t] = "store_rules"
  /\ rules_cache' = {frame[t].rules}
  /\ frame' = Stored(t, [frame[t] EXCEPT !.returned = {<<frame[t].cards, frame[t].rules>>}])
  /\ Goto(t, "idle")
  /\ UNCHANGED <<cards_cache, pipeline_vars, cap_call, cards_file, rules_file, nsaved>>

NextLoad ==
  \E t \in Threads :
    \/ BeginRead(t)
    \/ BeginRefresh(t)
    \/ ScrapeFails(t)
    \/ OpenCards(t)
    \/ WriteCards(t)
    \/ OpenRules(t)
    \/ WriteRules(t)
    \/ SaveMetadata(t)
    \/ SaveFails(t)
    \/ CheckCards(t)
    \/ CheckRules(t)
    \/ ReturnCards(t)
    \/ ReturnRules(t)
    \/ ReadCards(t)
    \/ ReadRules(t)
    \/ StoreCards(t)
    \/ StoreRules(t)

(* the files the process finds when it starts: none (nothing has been      *)
(* scraped yet), files a crash left unreadable, or the first snapshot      *)
CardsFileStates == {AbsentFile, UnreadableFile, ReadableFile(SnapshotCards(1))}
RulesFileStates == {AbsentFile, UnreadableFile, ReadableFile(SnapshotRules(1))}

InitLoad ==
  \E cards_json \in CardsFileStates, rules_json \in RulesFileStates :
    InitFiles(cards_json, rules_json)

SpecLoad == InitLoad /\ [][NextLoad]_vars

(***************************************************************************)
(* resolve_merchant_query on its own: a key of the known-merchant table,   *)
(* then the key followed by a suffix the normalizer strips                 *)
(***************************************************************************)
NoiseSuffixes == {"store", "shop", "market", "supercenter", "grocery", "gas station",
                  "station", "restaurant", "cafe", "pharmacy", "com"}

(* the state with the catalog loaded, nothing running, and `c` the call at *)
(* hand                                                                    *)
InitCall(c) ==
  /\ known_categories = InitialCategories
  /\ cards_cache = {AllCards}
  /\ rules_cache = {<<>>}
  /\ ncalls = 0
  /\ call = c
  /\ cap_call = [op |-> "none"]
  /\ cards_file = ReadableFile(AllCards)
  /\ rules_file = ReadableFile(<<>>)
  /\ nsaved = 1
  /\ pc = [t \in Threads |-> "idle"]
  /\ frame = [t \in Threads |-> EmptyFrame]

(* names that are no merchant's key or alias and no category *)
UnknownNames == {"zzz", "foo bar"}

(* the names resolved: every key of the table, and the unknown names *)
ResolveNames == {KNOWN_MERCHANTS[k].key : k \in 1..Len(KNOWN_MERCHANTS)} \cup UnknownNames

InitResolve ==
  \E name \in ResolveNames, suffix \in NoiseSuffixes :
    InitCall([op |-> "resolve_merchant_query",
              queries |-> <<name, name \o " " \o suffix>>,
              returned |-> <<>>])

(* resolve_merchant_query(query) for the next query of the pair *)
ResolveMerchantQuery ==
  /\ call.op = "resolve_merchant_query"
  /\ Len(call.returned) < Len(call.queries)
  /\ call' = [call EXCEPT !.returned =
                Append(@, resolve_merchant_query(call.queries[Len(call.returned) + 1],
                                                 known_categories))]
  /\ UNCHANGED <<known_categories, ncalls, cards_cache, rules_cache, cap_call, load_vars>>

NextResolve == ResolveMerchantQuery

SpecResolve == InitResolve /\ [][NextResolve]_vars

(***************************************************************************)
(* get_point_value and compute_effective_rate on their own                 *)
(***************************************************************************)
(* reward programs: none, programs of the valuation table with the id in  *)
(* lower and in upper case, and a program the table does not know, each   *)
(* with a base_point_value_cents of its own                                *)
ProgramIds == {"chase_ur", "CITI_TY", "discover_cashback", "hotel_points"}
ProgramBaseValues == {Rat(1, 100), Rat(17, 1000), Rat(1, 50)}
RewardPrograms ==
  {{}} \cup {{[id |-> id, base_point_value_cents |-> value]} :
               id \in ProgramIds, value \in ProgramBaseValues}
RewardTypes == {"cashback_percent", "points_per_dollar", "miles_per_dollar", "hybrid"}
Multipliers == {RInt(1), Rat(3, 2), RInt(4)}

InitValue ==
  \E reward_program \in RewardPrograms, reward_type \in RewardTypes,
     multiplier \in Multipliers :
    InitCall([op |-> "valuation",
              reward_program |-> reward_program,
              earning_rule |-> Rule("card", "rule", <<"groceries">>, <<>>, <<>>,
                                    multiplier, reward_type, <<>>, FALSE),
              point_value |-> {},
              effective_rate |-> {}])

(* get_point_value(reward_program) *)
GetPointValue ==
  /\ call.op = "valuation"
  /\ call.point_value = {}
  /\ call' = [call EXCEPT !.point_value = {get_point_value(call.reward_program)}]
  /\ UNCHANGED <<known_categories, ncalls, cards_cache, rules_cache, cap_call, load_vars>>

(* compute_effective_rate(earning_rule, reward_program) *)
ComputeEffectiveRate ==
  /\ call.op = "valuation"
  /\ call.effective_rate = {}
  /\ call' = [call EXCEPT !.effective_rate =
                {compute_effective_rate(call.earning_rule, call.reward_program)}]
  /\ UNCHANGED <<known_categories, ncalls, cards_cache, rules_cache, cap_call, load_vars>>

NextValue == GetPointValue \/ ComputeEffectiveRate

SpecValue == InitValue /\ [][NextValue]_vars

(***************************************************************************)
(* RuleEngine: construction on a list of rules, then one lookup            *)
(***************************************************************************)
LookupCategories == {<<>>, <<"groceries">>, <<"gas", "groceries">>, <<"travel">>}
LookupMerchantNames == {{}, {""}, {"Walmart Supercenter"}, {"Wal"}}
LookupMccs == {{}, {"5411"}}

InitRule ==
  \E rules \in RuleCatalogs, card \in {SapphireCard, BlueCashCard},
     categories \in LookupCategories, merchant_name \in LookupMerchantNames,
     mcc \in LookupMccs :
    InitCall([op |-> "RuleEngine",
              rules |-> rules,
              card |-> card,
              categories |-> categories,
              merchant_name |-> merchant_name,
              mcc |-> mcc,
              sorted_rules |-> <<>>,
              result |-> {},
              applicable |-> <<>>])

(* engine = RuleEngine(rules, card) *)
ConstructRuleEngine ==
  /\ call.op = "RuleEngine"
  /\ call' = [call EXCEPT !.op = "constructed",
                          !.sorted_rules = SortedRules(call.rules)]
  /\ UNCHANGED <<known_categories, ncalls, cards_cache, rules_cache, cap_call, load_vars>>

(* engine.find_applicable_rule(categories, merchant_name, mcc) *)
FindApplicableRule ==
  /\ call.op = "constructed"
  /\ call' = [call EXCEPT !.op = "find_applicable_rule",
                          !.result = FirstApplicable(call.rules, call.sorted_rules, call.card,
                                                     call.categories, call.merchant_name,
                                                     call.mcc)]
  /\ UNCHANGED <<known_categories, ncalls, cards_cache, rules_cache, cap_call, load_vars>>

(* engine.get_all_applicable_rules(categories, merchant_name, mcc), with   *)
(* the arguments of the lookup before it                                   *)
GetAllApplicableRules ==
  /\ call.op = "find_applicable_rule"
  /\ call' = [call EXCEPT !.op = "get_all_applicable_rules",
                          !.applicable = AllApplicable(call.rules, call.sorted_rules, call.card,
                                                       call.categories, call.merchant_name,
                                                       call.mcc)]
  /\ UNCHANGED <<known_categories, ncalls, cards_cache, rules_cache, cap_call, load_vars>>

NextRule == ConstructRuleEngine \/ FindApplicableRule \/ GetAllApplicableRules

SpecRule == InitRule /\ [][NextRule]_vars

(***************************************************************************)
(* scrapers/base.py, scrapers/cache.py: BaseScraper.fetch_url.  One        *)
(* scraper with its use_cache, offline_mode and use_selenium fields, the   *)
(* cache directory as a map from URL to the state of the URL's file, and   *)
(* the call in progress: its arguments, its loop counter, every            *)
(* time.sleep, driver.get and session.get it has made, and its result.     *)
(* What the network answers, and whether a write to the cache directory    *)
(* succeeds, is the environment's choice at each request.  A call is a     *)
(* step up to its first request and then a step for each thing it waits    *)
(* for (the driver, the page, the element, an attempt of requests), and    *)
(* the cache directory can change between any two of them.                 *)
(***************************************************************************)
MAX_RETRIES == 3
RETRY_DELAY_SECONDS == 2
RATE_LIMIT_DELAY == 1
MaxFetches == 2

Urls == {"https://a.example/cards"}
Bodies == {"", "<p>new</p>\r<p>b</p>"}
RetryCounts == {0, 1, MAX_RETRIES}

(* the file of a URL in the cache directory: absent, holding a text, or    *)
(* present and not readable as UTF-8 text                                  *)
NoCacheFile == [exists |-> FALSE, readable |-> FALSE, text |-> ""]
CacheFile(text) == [exists |-> TRUE, readable |-> TRUE, text |-> text]
UnreadableCacheFile == [exists |-> TRUE, readable |-> FALSE, text |-> ""]
CachedContents ==
  {NoCacheFile, UnreadableCacheFile, CacheFile(""), CacheFile("<p>old</p>\r\n<p>b</p>")}

(* the cache directory a scraper starts on: the file of a URL in any of   *)
(* these states                                                            *)
InitialCaches == [Urls -> CachedContents]

(* f.read() of a file opened in text mode: the line ends "\r\n" and "\r"   *)
(* of the file are read as "\n"                                            *)
RECURSIVE UniversalNewlines(_)
UniversalNewlines(text) ==
  IF text = "" THEN ""
  ELSE IF SubSeq(text, 1, 1) # "\r"
  THEN SubSeq(text, 1, 1) \o UniversalNewlines(SubSeq(text, 2, Len(text)))
  ELSE IF Len(text) >= 2 /\ SubSeq(text, 2, 2) = "\n"
  THEN "\n" \o UniversalNewlines(SubSeq(text, 3, Len(text)))
  ELSE "\n" \o UniversalNewlines(SubSeq(text, 2, Len(text)))

(* ScraperCache.get: None when the file is absent, and when reading it     *)
(* raises (the exception is logged)                                        *)
cache_get(cache, url) ==
  IF cache[url].exists /\ cache[url].readable
  THEN {UniversalNewlines(cache[url].text)}
  ELSE {}

(* how a write of the cache file ends: open() raises and the file is as it *)
(* was; or open() truncates the file and write() puts `chars` characters   *)
(* of the text into it, all of them when it does not raise                 *)
NotOpened == [opened |-> FALSE, chars |-> 0]
Wrote(chars) == [opened |-> TRUE, chars |-> chars]
WriteOutcomes == {NotOpened} \cup {Wrote(n) : n \in {0, 4, 99}}

(* ScraperCache.set: the text is written as it is (a line end "\n" is      *)
(* written as os.linesep, which is "\n"); an exception is logged and       *)
(* swallowed, and the file keeps what had reached it: nothing, or the      *)
(* first characters of the text (the bodies here hold one-byte characters, *)
(* so what has reached the file is readable)                               *)
cache_set(cache, url, html, written) ==
  IF ~written.opened THEN cache
  ELSE [cache EXCEPT ![url] =
          CacheFile(SubSeq(html, 1, IF written.chars < Len(html)
                                    THEN written.chars ELSE Len(html)))]

(* ScraperCache.clear: every file of the cache directory is unlinked; a    *)
(* file whose unlink raises is logged and kept                             *)
cache_clear(cache, kept) ==
  [url \in DOMAIN cache |-> IF url \in kept THEN cache[url] ELSE NoCacheFile]

SleepEvent(seconds) == [ev |-> "sleep", seconds |-> seconds, ok |-> TRUE, text |-> ""]
GetEvent(ev, ok, text) == [ev |-> ev, seconds |-> 0, ok |-> ok, text |-> text]

(* what session.get or driver.page_source gives: a body, or an exception   *)
(* (a requests.RequestException of session.get)                            *)
Outcomes == {[ok |-> FALSE, text |-> ""]} \cup {[ok |-> TRUE, text |-> b] : b \in Bodies}

(* how _get_selenium_driver ends when the scraper has no driver yet: the   *)
(* driver is created; webdriver.Chrome (or the installing of the driver)   *)
(* raises and there is none; or set_page_load_timeout raises on the driver *)
(* just assigned to self.driver                                            *)
DriverOutcomes == {"created", "webdriver.Chrome", "set_page_load_timeout"}

(* html fetched: "if self.cache: self.cache.set(url, html)", "return html". *)
(* fetched keeps the URLs fetched with a non-empty html.                    *)
ReturnHtml(c, html, written) ==
  [c EXCEPT !.cache = IF c.use_cache THEN cache_set(c.cache, c.url, html, written) ELSE @,
            !.fetched = IF html # "" THEN @ \cup {c.url} ELSE @,
            !.returned = {html},
            !.pc = "idle"]

(* fetch_url up to the first request: the cache check, the offline check   *)
(* and the rate limiting.  file is the URL's cache file as the call finds  *)
(* it, known whether an earlier call has fetched the URL.                  *)
begin_fetch_url(c, url, retries, wait_for_element) ==
  LET cached == IF c.use_cache THEN cache_get(c.cache, url) ELSE {}
      entered == [c EXCEPT !.url = url, !.retries = retries,
                           !.wait_for_element = wait_for_element,
                           !.attempt = 0, !.events = <<>>, !.returned = {},
                           !.file = c.cache[url],
                           !.known = url \in c.fetched]
  IN  IF Given(cached) THEN [entered EXCEPT !.returned = cached]
      ELSE IF c.offline_mode THEN entered
      ELSE [entered EXCEPT !.events = <<SleepEvent(RATE_LIMIT_DELAY)>>,
                           !.pc = IF c.use_selenium THEN "selenium" ELSE "http"]

(* any exception of the Selenium path: "self.use_selenium = False", and    *)
(* the call falls through to requests                                      *)
selenium_failed(c) == [c EXCEPT !.use_selenium = FALSE, !.pc = "http"]

(* "driver = self._get_selenium_driver()", "if driver:": the driver is     *)
(* created when the scraper has none, and kept.  When its creation raises  *)
(* the scraper gives Selenium up and the call goes on to requests.         *)
get_selenium_driver(c, created) ==
  IF ~c.driver /\ created # "created"
  THEN [selenium_failed(c) EXCEPT !.driver = (created = "set_page_load_timeout")]
  ELSE [c EXCEPT !.driver = TRUE, !.pc = "selenium_get"]

(* "driver.get(url)" *)
selenium_get(c, ok) ==
  LET got == [c EXCEPT !.events = @ \o <<GetEvent("driver.get", ok, "")>>]
  IN  IF ok THEN [got EXCEPT !.pc = "selenium_wait"] ELSE selenium_failed(got)

(* the wait after driver.get(url): for the element when one is given       *)
(* (until raises when it does not appear), for two seconds otherwise       *)
selenium_wait(c, ok) ==
  IF c.wait_for_element
  THEN LET waited == [c EXCEPT !.events = @ \o <<GetEvent("WebDriverWait.until", ok, "")>>]
       IN  IF ok THEN [waited EXCEPT !.pc = "selenium_read"] ELSE selenium_failed(waited)
  ELSE [c EXCEPT !.events = @ \o <<SleepEvent(2)>>, !.pc = "selenium_read"]

(* "html = driver.page_source", then the cache write and "return html" *)
selenium_read(c, outcome, written) ==
  LET read == [c EXCEPT !.events = @ \o <<GetEvent("driver.page_source",
                                                    outcome.ok, outcome.text)>>]
  IN  IF outcome.ok THEN ReturnHtml(read, outcome.text, written) ELSE selenium_failed(read)

(* an iteration of "for attempt in range(retries)" that never gives up *)
HttpAttemptRetryingForever(c, outcome, written) ==
  LET got == [c EXCEPT !.events = @ \o <<GetEvent("session.get", outcome.ok, outcome.text)>>]
  IN  IF outcome.ok THEN ReturnHtml(got, outcome.text, written)
      ELSE [got EXCEPT !.events = @ \o <<SleepEvent(RETRY_DELAY_SECONDS * (c.attempt + 1))>>]

(* one iteration of "for attempt in range(retries)" *)
http_attempt(c, outcome, written) ==
  LET got == [c EXCEPT !.events = @ \o <<GetEvent("session.get", outcome.ok, outcome.text)>>]
  IN  IF outcome.ok THEN ReturnHtml(got, outcome.text, written)
      ELSE IF c.attempt < c.retries - 1
      THEN [got EXCEPT !.events = @ \o <<SleepEvent(RETRY_DELAY_SECONDS * (c.attempt + 1))>>,
                       !.attempt = @ + 1]
      ELSE [got EXCEPT !.returned = {}, !.pc = "idle"]

(* a scraper as __init__ leaves it (no driver yet), over a cache directory *)
(* that earlier runs have filled                                           *)
InitFetch ==
  \E use_cache \in BOOLEAN, offline_mode \in BOOLEAN, use_selenium \in BOOLEAN,
     cache \in InitialCaches :
    InitCall([op |-> "fetch_url", pc |-> "idle",
              use_cache |-> use_cache, offline_mode |-> offline_mode,
              use_selenium |-> use_selenium, driver |-> FALSE,
              cache |-> cache, fetched |-> {},
              url |-> "", retries |-> 0, wait_for_element |-> FALSE, attempt |-> 0,
              events |-> <<>>, returned |-> {}, file |-> NoCacheFile, known |-> FALSE])

(* wait_for_element is read on the Selenium path only (base.py:143), so it *)
(* is varied for the scrapers that use Selenium                            *)
FetchUrl(url, retries, wait_for_element) ==
  /\ call.pc = "idle"
  /\ ncalls < MaxFetches
  /\ wait_for_element => call.use_selenium
  /\ call' = begin_fetch_url(call, url, retries, wait_for_element)
  /\ ncalls' = ncalls + 1
  /\ UNCHANGED <<known_categories, cards_cache, rules_cache, cap_call, load_vars>>

(* the files of the cache directory are removed, by self.cache.clear() or  *)
(* by another scraper on the same directory, between two calls or while a  *)
(* call waits for the network, for the page or for its next attempt        *)
ClearCache(kept) ==
  /\ call.use_cache
  /\ call' = [call EXCEPT !.cache = cache_clear(call.cache, kept)]
  /\ UNCHANGED <<known_categories, ncalls, cards_cache, rules_cache, cap_call, load_vars>>

(* another scraper on the same cache directory (every BaseScraper makes    *)
(* its ScraperCache on ".cache/scrapers", and scraper_job.py runs as a      *)
(* process of its own) caches a page it has fetched, between two calls of  *)
(* this scraper or while a call of it waits                                *)
OtherScraperSet(url, html, written) ==
  /\ call.use_cache
  /\ call' = [call EXCEPT !.cache = cache_set(call.cache, url, html, written)]
  /\ UNCHANGED <<known_categories, ncalls, cards_cache, rules_cache, cap_call, load_vars>>

(* a write of the cache file has an outcome only where the code comes to   *)
(* self.cache.set: html has been fetched and the scraper uses the cache    *)
Writes(html_fetched, written) == (html_fetched /\ call.use_cache) \/ written = NotOpened

(* the driver is created only when the scraper has none *)
GetSeleniumDriver(created) ==
  /\ call.pc = "selenium"
  /\ call.driver => created = "created"
  /\ call' = get_selenium_driver(call, created)
  /\ UNCHANGED <<known_categories, ncalls, cards_cache, rules_cache, cap_call, load_vars>>

SeleniumGet(ok) ==
  /\ call.pc = "selenium_get"
  /\ call' = selenium_get(call, ok)
  /\ UNCHANGED <<known_categories, ncalls, cards_cache, rules_cache, cap_call, load_vars>>

(* the wait can raise only when an element is waited for *)
SeleniumWait(ok) ==
  /\ call.pc = "selenium_wait"
  /\ ~ok => call.wait_for_element
  /\ call' = selenium_wait(call, ok)
  /\ UNCHANGED <<known_categories, ncalls, cards_cache, rules_cache, cap_call, load_vars>>

SeleniumRead(outcome, written) ==
  /\ call.pc = "selenium_read"
  /\ Writes(outcome.ok, written)
  /\ call' = selenium_read(call, outcome, written)
  /\ UNCHANGED <<known_categories, ncalls, cards_cache, rules_cache, cap_call, load_vars>>

HttpAttempt(outcome, written) ==
  /\ call.pc = "http"
  /\ call.attempt < call.retries
  /\ Writes(outcome.ok, written)
  /\ call' = http_attempt(call, outcome, written)
  /\ UNCHANGED <<known_categories, ncalls, cards_cache, rules_cache, cap_call, load_vars>>

(* range(retries) is exhausted without a return in the loop: "return None" *)
ReturnAfterLoop ==
  /\ call.pc = "http"
  /\ call.attempt >= call.retries
  /\ call' = [call EXCEPT !.returned = {}, !.pc = "idle"]
  /\ UNCHANGED <<known_categories, ncalls, cards_cache, rules_cache, cap_call, load_vars>>

(* the steps of a call that has been entered *)
FetchStep ==
  \/ \E created \in DriverOutcomes : GetSeleniumDriver(created)
  \/ \E ok \in BOOLEAN : SeleniumGet(ok)
  \/ \E ok \in BOOLEAN : SeleniumWait(ok)
  \/ \E outcome \in Outcomes, written \in WriteOutcomes : SeleniumRead(outcome, written)
  \/ \E outcome \in Outcomes, written \in WriteOutcomes : HttpAttempt(outcome, written)
  \/ ReturnAfterLoop

NextFetch ==
  \/ \E url \in Urls, retries \in RetryCounts, wait_for_element \in BOOLEAN :
       FetchUrl(url, retries, wait_for_element)
  \/ \E kept \in SUBSET Urls : ClearCache(kept)
  \/ \E url \in Urls, html \in Bodies, written \in WriteOutcomes :
       OtherScraperSet(url, html, written)
  \/ FetchStep

SpecFetch == InitFetch /\ [][NextFetch]_vars

(* a call that has been entered runs on: every request ends, with a        *)
(* response or with a timeout after REQUEST_TIMEOUT, and so does every     *)
(* wait (time.sleep, and WebDriverWait after its ten seconds)              *)
SpecFetchLive == SpecFetch /\ WF_vars(FetchStep)

(***************************************************************************)
(* Properties                                                              *)
(***************************************************************************)
Returned == call.op = "find_best_cards_for_query"
Rate(score) == score.effective_rate_cents_per_dollar

(* C1: the returned candidate list is sorted non-increasing by effective   *)
(* rate, and candidates of equal rate stand in the order of their rules in *)
(* the rule catalog.                                                       *)
RankingIsStableDescending ==
  Returned =>
    LET cs == call.recommendation.candidate_cards
    IN  \A i, j \in 1..Len(cs) :
          i < j => /\ RLeq(Rate(cs[j]), Rate(cs[i]))
                   /\ Rate(cs[i]) = Rate(cs[j]) => cs[i].rule_index < cs[j].rule_index

(* two candidates of equal rate were returned *)
TieReturned ==
  /\ Returned
  /\ Len(call.recommendation.candidate_cards) >= 2
  /\ Rate(call.recommendation.candidate_cards[1]) = Rate(call.recommendation.candidate_cards[2])

(* the three ways a rule matches, as the claim C2 states them *)
StatedCategoryMatch(rule) ==
  \E c \in call.recommendation.resolved_categories : InList(c, rule.merchant_categories)
StatedMccMatch(rule) ==
  \E mcc \in call.merchant_mapping.mcc : InList(mcc, rule.mcc_list)
StatedNameMatch(rule) ==
  \E k \in 1..Len(rule.merchant_names) :
    LET a == StrLower(rule.merchant_names[k])
        b == StrLower(call.merchant_mapping.merchant_name)
    IN  StrContains(a, b) \/ StrContains(b, a)
AdmittedCard(rule) ==
  \E c \in 1..Len(Some(cards_cache)) :
    Some(cards_cache)[c].id = rule.card_id /\ ~Some(cards_cache)[c].is_business_card

(* the candidate list holds exactly one entry for each rule of Expected,   *)
(* in catalog order, each entry carrying its rule and that rule's card     *)
OneEntryPerRule(Expected(_)) ==
  LET cs == call.candidate_scores
      rules == Some(rules_cache)
  IN  /\ {cs[k].rule_index : k \in 1..Len(cs)} = {i \in 1..Len(rules) : Expected(rules[i])}
      /\ \A k, m \in 1..Len(cs) : k < m => cs[k].rule_index < cs[m].rule_index
      /\ \A k \in 1..Len(cs) : /\ cs[k].matching_rule = rules[cs[k].rule_index]
                               /\ cs[k].card.id = cs[k].matching_rule.card_id

(* C2 as stated: before truncation the candidate list holds exactly one    *)
(* entry per rule whose card is in the catalog and admitted by the         *)
(* business filter and that matches by category, by MCC, or by substring   *)
(* containment, either way, between the resolved merchant name and one of  *)
(* the rule's merchant names.                                              *)
CandidatesAreTheMatchingRules ==
  Returned =>
    LET Expected(rule) == /\ AdmittedCard(rule)
                          /\ \/ StatedCategoryMatch(rule)
                             \/ StatedMccMatch(rule)
                             \/ StatedNameMatch(rule)
    IN  OneEntryPerRule(Expected)

(* C2 as amended: the same, the merchant-name test applying only when the  *)
(* resolved merchant name is not the empty string.                         *)
CandidatesAreTheMatchingRulesOfNamedQueries ==
  Returned =>
    LET Expected(rule) == /\ AdmittedCard(rule)
                          /\ \/ StatedCategoryMatch(rule)
                             \/ StatedMccMatch(rule)
                             \/ /\ call.merchant_mapping.merchant_name # ""
                                /\ StatedNameMatch(rule)
    IN  OneEntryPerRule(Expected)

(* one card contributed two entries, one of them matched by merchant name  *)
(* alone                                                                   *)
TwoEntriesOfOneCard ==
  /\ Returned
  /\ Len(call.candidate_scores) = 2
  /\ call.candidate_scores[1].card.id = call.candidate_scores[2].card.id
  /\ \E k \in 1..2 : /\ ~StatedCategoryMatch(call.candidate_scores[k].matching_rule)
                     /\ ~StatedMccMatch(call.candidate_scores[k].matching_rule)

(* C3: a matching rule on a business card is left out of the response when *)
(* include_business is false and is in the response when it is true (no    *)
(* other filter given, and max_results large enough to hold every rule).   *)
BusinessCardsFollowIncludeBusiness ==
  ( /\ call.op = "get_recommendation"
    /\ call.filters = [issuer |-> {}, reward_type |-> {}, network |-> {}]
    /\ Len(Some(rules_cache)) <= call.max_results )
  =>
    LET rules == Some(rules_cache)
        cards == Some(cards_cache)
        cs == call.response.candidate_cards
    IN  \A i \in 1..Len(rules) :
          ( /\ \E c \in 1..Len(cards) : cards[c].id = rules[i].card_id
                                        /\ cards[c].is_business_card
            /\ \/ StatedCategoryMatch(rules[i])
               \/ StatedMccMatch(rules[i])
               \/ call.merchant_mapping.merchant_name # "" /\ StatedNameMatch(rules[i]) )
          => ( call.include_business <=> \E k \in 1..Len(cs) : cs[k].rule_index = i )

(* C4: no call changes a lookup table or the catalog: the known-merchant   *)
(* table, each entry's normalized_categories list included, is as it was   *)
(* before the first call.                                                  *)
LookupTablesUnchanged ==
  known_categories = InitialCategories

(* C5: a call returns what the same call returns on a freshly started      *)
(* process, whatever calls were made before it.                            *)
SameArgumentsSameOutput ==
  Returned =>
    call.recommendation =
      find_best_cards_for_query(call.query, Some(cards_cache), Some(rules_cache),
                                call.max_results, InitialCategories)

(* the merchant of this call had been resolved by an earlier call          *)
MerchantResolvedAgain ==
  /\ Returned
  /\ call.merchant_mapping.entry > 0
  /\ Len(call.merchant_mapping.normalized_categories)
       > Len(InitialCategories[call.merchant_mapping.entry])
  /\ call.recommendation.candidate_cards # <<>>

(* cards as one scrape saved them with rules as another scrape saved them *)
Torn(pair) ==
  \E m, n \in 1..MaxSnapshots :
    m # n /\ pair = <<SnapshotCards(m), SnapshotRules(n)>>

(* C6: a reader never gets cards of one snapshot with rules of another.    *)
ReaderGetsOneSnapshot ==
  \A t \in Threads :
    ~frame[t].force_refresh => \A pair \in frame[t].returned : ~Torn(pair)

(* C7: the resolution and the recommendation's resolved_categories are     *)
(* never empty.                                                            *)
ResolvedCategoriesNonEmpty ==
  Returned => /\ Len(call.merchant_mapping.normalized_categories) > 0
              /\ call.recommendation.resolved_categories # {}

(* the query was empty or all whitespace *)
BlankQueryResolved ==
  Returned /\ StrStrip(call.query) = ""

CapReturned == cap_call.op = "returned"

(* the first cap of the call has a positive amount *)
FirstCapPositive ==
  Len(cap_call.caps) > 0 /\ RLess(RInt(0), cap_call.caps[1].amount_dollars)

(* C8: with a cap of a positive amount and spending_amount 0 the rate      *)
(* returned is (effective_rate + base_rate) / 2 whatever the cap amount,   *)
(* with exactly one note, which names the cap amount and the period.       *)
ZeroSpendingBlendsHalfAndHalf ==
  (CapReturned /\ FirstCapPositive /\ cap_call.spending_amount = RInt(0)) =>
    /\ cap_call.result.rate
         = RDiv(RAdd(cap_call.effective_rate, cap_call.base_rate), RInt(2))
    /\ Len(cap_call.result.notes) = 1
    /\ RInt(cap_call.result.notes[1].cap_amount) = cap_call.caps[1].amount_dollars
    /\ cap_call.result.notes[1].period = cap_call.caps[1].period

(* C9: with spending_amount above the first cap the rate returned is       *)
(* (cap*effective_rate + (spending_amount - cap)*base_rate) /              *)
(* spending_amount, with one note saying the cap was exceeded.             *)
ExceededCapBlendsBySpending ==
  ( /\ CapReturned
    /\ Len(cap_call.caps) > 0
    /\ RLess(cap_call.caps[1].amount_dollars, cap_call.spending_amount) )
  =>
    LET cap == cap_call.caps[1].amount_dollars
        s == cap_call.spending_amount
    IN  /\ cap_call.result.rate
             = RDiv(RAdd(RMul(cap, cap_call.effective_rate),
                         RMul(RSub(s, cap), cap_call.base_rate)), s)
        /\ Len(cap_call.result.notes) = 1
        /\ cap_call.result.notes[1].text = "Spending cap exceeded"

(* cap $1000, effective 5.0, base 1.0, spending $3000 gave 7000/3000 *)
ExceededCapExample ==
  /\ CapReturned
  /\ cap_call.effective_rate = RInt(5)
  /\ cap_call.base_rate = RInt(1)
  /\ Len(cap_call.caps) > 0
  /\ cap_call.caps[1].amount_dollars = RInt(1000)
  /\ cap_call.spending_amount = RInt(3000)
  /\ cap_call.result.rate = Rat(7000, 3000)

(* C10: with spending_amount non-zero and at most the first cap the rate   *)
(* is returned unchanged with one note that the cap was not reached; with  *)
(* no caps the rate is returned unchanged with no note.                    *)
WithinCapKeepsRate ==
  CapReturned =>
    /\ Len(cap_call.caps) = 0 =>
         /\ cap_call.result.rate = cap_call.effective_rate
         /\ cap_call.result.notes = <<>>
    /\ ( /\ Len(cap_call.caps) > 0
         /\ cap_call.spending_amount # RInt(0)
         /\ RLeq(cap_call.spending_amount, cap_call.caps[1].amount_dollars) ) =>
         /\ cap_call.result.rate = cap_call.effective_rate
         /\ Len(cap_call.result.notes) = 1
         /\ cap_call.result.notes[1].text = "Spending cap (within limit)"

(* spending was exactly the cap *)
SpendingEqualsCap ==
  /\ CapReturned
  /\ FirstCapPositive
  /\ cap_call.spending_amount = cap_call.caps[1].amount_dollars
  /\ cap_call.result.rate = cap_call.effective_rate
  /\ cap_call.effective_rate # cap_call.base_rate


(* C11: for the query "groceries" on a catalog holding the 4x points       *)
(* grocery rule of the card on the Chase Ultimate Rewards program (valued  *)
(* at 1.7 cents per point) and the 6% cashback grocery rule capped at      *)
(* $6000 a year, the points rule is scored 6.8, the capped cashback rule   *)
(* is scored 3.5, and the points card is ranked first.                     *)
PointsRuleOutranksCappedCashback ==
  (/\ Returned
   /\ call.query = "groceries"
   /\ call.max_results = 2
   /\ ListSet(Some(rules_cache)) = {RulePool[1], RulePool[2]})
  => LET cs == call.recommendation.candidate_cards
     IN  /\ Len(cs) = 2
         /\ cs[1].matching_rule = RulePool[1]
         /\ Rate(cs[1]) = Rat(68, 10)
         /\ cs[2].matching_rule = RulePool[2]
         /\ Rate(cs[2]) = Rat(7, 2)

(* C12: the catalog's multipliers, point values and cap amounts being      *)
(* non-negative (cap amounts positive), every CardScore returned by        *)
(* find_best_cards_for_query has a rate of at least 0.                     *)
ReturnedRatesNonNegative ==
  Returned =>
    \A i \in 1..Len(call.recommendation.candidate_cards) :
      RLeq(RInt(0), Rate(call.recommendation.candidate_cards[i]))

(* a candidate was returned whose rate is the blend of a capped rule *)
BlendedRateReturned ==
  /\ Returned
  /\ \E i \in 1..Len(call.recommendation.candidate_cards) :
       LET score == call.recommendation.candidate_cards[i]
       IN  /\ Len(score.matching_rule.caps) > 0
           /\ Rate(score) # score.matching_rule.multiplier
           /\ RLess(RInt(0), Rate(score))

Min(a, b) == IF a < b THEN a ELSE b

(* C13: for max_results >= 0 the returned list has length                  *)
(* min(max_results, number of matching (card, rule) pairs) and is the      *)
(* first that many entries of the whole candidate list sorted by rate, so  *)
(* no omitted candidate has a strictly higher rate than a returned one.    *)
TruncationKeepsTheBest ==
  (Returned /\ call.max_results >= 0) =>
    LET cs == call.recommendation.candidate_cards
        all == Sorted(call.candidate_scores)
    IN  /\ Len(cs) = Min(call.max_results, Len(call.candidate_scores))
        /\ cs = SubSeq(all, 1, Len(cs))
        /\ \A i \in 1..Len(cs), j \in 1..Len(call.candidate_scores) :
             (\A k \in 1..Len(cs) : cs[k].rule_index # call.candidate_scores[j].rule_index)
             => ~RLess(Rate(cs[i]), Rate(call.candidate_scores[j]))

(* two rules of different rates matched and one candidate was asked for *)
LowerCandidateOmitted ==
  /\ Returned
  /\ call.max_results = 1
  /\ Len(call.candidate_scores) = 2
  /\ RLess(Rate(call.candidate_scores[1]), Rate(call.candidate_scores[2]))
  /\ Len(call.recommendation.candidate_cards) = 1
  /\ call.recommendation.candidate_cards[1].rule_index = call.candidate_scores[2].rule_index

(* C14: when no rule of the catalog matches the query on any card, the     *)
(* call returns an empty candidate list and an explanation holding "No     *)
(* specific rewards found"; whenever the returned list is non-empty, the   *)
(* explanation names the card and the rate of its first candidate.         *)
NoMatchFallsBackAndTopCardIsNamed ==
  Returned =>
    LET cs == call.recommendation.candidate_cards
        explanation == call.recommendation.explanation
    IN  /\ Len(call.candidate_scores) = 0 =>
             /\ cs = <<>>
             /\ explanation.text = "No specific rewards found"
        /\ Len(cs) > 0 =>
             /\ explanation.text = "offers the best value"
             /\ explanation.best_card = cs[1].card.name
             /\ explanation.best_rate = FormatFixed(Rate(cs[1]), 2)

(* "Macy's" was asked on a catalog that has rules, none of them matching *)
MacysMatchesNoRule ==
  /\ Returned
  /\ call.query = "Macy's"
  /\ call.merchant_mapping.merchant_name = "Macy's"
  /\ Len(Some(rules_cache)) > 0
  /\ call.max_results > 0
  /\ call.candidate_scores = <<>>
  /\ call.recommendation.candidate_cards = <<>>
  /\ call.recommendation.explanation.text = "No specific rewards found"

(* the base rate as the claim C17 states it *)
StatedBaseRate(card) ==
  IF card.type = "cashback_percent" THEN RInt(1) ELSE get_point_value(card.reward_program)

(* C17: the base rate the cap blending of find_best_cards_for_query uses   *)
(* is 1.0 for every cashback-percent card, with or without a reward        *)
(* program, and the card's point valuation for every other card: the rate  *)
(* of a returned candidate on a capped rule is the blend on that base.     *)
CapBlendingUsesStatedBaseRate ==
  Returned =>
    \A i \in 1..Len(call.recommendation.candidate_cards) :
      LET score == call.recommendation.candidate_cards[i]
          rule == score.matching_rule
      IN  Len(rule.caps) > 0 =>
            Rate(score) =
              AssumedBlendedRate(rule.caps[1].amount_dollars,
                                 compute_effective_rate(rule, score.card.reward_program),
                                 StatedBaseRate(score.card))

(* C19: only the first cap of the list is honoured: apply_cap_penalty      *)
(* returns for a cap list the rate and the notes it returns for the list   *)
(* of its first cap alone, whatever caps follow, so two cap lists with the *)
(* same first element give the same result.                                *)
OnlyFirstCapHonoured ==
  (CapReturned /\ Len(cap_call.caps) > 0) =>
    cap_call.result = apply_cap_penalty(cap_call.effective_rate, <<cap_call.caps[1]>>,
                                        cap_call.spending_amount, cap_call.base_rate)

(* a second cap smaller than the first, and a spending between the two *)
SpendingAboveLaterCapOnly ==
  /\ CapReturned
  /\ Len(cap_call.caps) = 2
  /\ RLess(cap_call.caps[2].amount_dollars, cap_call.spending_amount)
  /\ RLess(cap_call.spending_amount, cap_call.caps[1].amount_dollars)
  /\ cap_call.result.rate = cap_call.effective_rate
  /\ cap_call.result.notes[1].text = "Spending cap (within limit)"

Resolved == call.op = "resolve_merchant_query" /\ Len(call.returned) = Len(call.queries)

(* C15: for every key k of the known-merchant table and every suffix s the *)
(* normalizer strips, the queries k and k + " " + s resolve to the same    *)
(* merchant entry and so to the same normalized categories.                *)
SuffixNoiseInsensitive ==
  (Resolved /\ \E k \in 1..Len(KNOWN_MERCHANTS) : KNOWN_MERCHANTS[k].key = call.queries[1]) =>
    /\ call.returned[1].entry > 0
    /\ call.returned[2].entry = call.returned[1].entry
    /\ call.returned[2].normalized_categories = call.returned[1].normalized_categories

(* "walmart" and "walmart supercenter" were resolved, both to Walmart *)
WalmartSupercenterResolved ==
  /\ Resolved
  /\ call.queries = <<"walmart", "walmart supercenter">>
  /\ call.returned[2].merchant_name = "Walmart"
  /\ call.returned[2].normalized_categories = <<"general_merchandise", "groceries">>

(* the four criteria of merchant identification as the claim C20 lists     *)
(* them, numbered in the order the resolver tries them, for entry i of the *)
(* known-merchant table and the query in lower case and cleaned            *)
Criterion(c, i, query_lower, query_clean) ==
  LET key == KNOWN_MERCHANTS[i].key
      aliases == KNOWN_MERCHANTS[i].aliases
  IN  IF c = 1 THEN key = query_lower \/ key = query_clean
      ELSE IF c = 2 THEN StrContains(query_lower, key) \/ StrContains(query_clean, key)
      ELSE IF c = 3 THEN InList(query_lower, aliases) \/ InList(query_clean, aliases)
      ELSE \E k \in 1..Len(aliases) :
             StrContains(query_lower, aliases[k]) \/ StrContains(query_clean, aliases[k])

(* the first entry, in table order, that satisfies one of the criteria of  *)
(* the set cs; 0 when no entry does                                        *)
FirstEntry(cs, query_lower, query_clean) ==
  LET Hit(i) == \E c \in cs : Criterion(c, i, query_lower, query_clean)
  IN  FirstIndex(Len(KNOWN_MERCHANTS), Hit)

(* the earliest criterion some entry satisfies; 0 when none is satisfied *)
EarliestCriterion(query_lower, query_clean) ==
  LET Tried(c) == \E i \in 1..Len(KNOWN_MERCHANTS) : Criterion(c, i, query_lower, query_clean)
  IN  FirstIndex(4, Tried)

(* C20 as stated: the merchant returned is the first entry, in table       *)
(* order, that satisfies any one of the four criteria.                     *)
FirstEntryOfAnyCriterionWins ==
  Resolved =>
    \A n \in 1..Len(call.queries) :
      call.returned[n].entry =
        FirstEntry(1..4, QueryLower(call.queries[n]), QueryClean(call.queries[n]))

(* C20 amended: the criteria are tried one after the other, each over the  *)
(* whole table; the merchant returned is the first entry, in table order,  *)
(* that satisfies the earliest criterion any entry satisfies.              *)
FirstEntryOfEarliestCriterionWins ==
  Resolved =>
    \A n \in 1..Len(call.queries) :
      call.returned[n].entry =
        FirstEntry({EarliestCriterion(QueryLower(call.queries[n]),
                                      QueryClean(call.queries[n]))},
                   QueryLower(call.queries[n]), QueryClean(call.queries[n]))

(* "cvs pharmacy" was resolved to CVS, a later entry than Macy's, whose    *)
(* alias "macy" is inside "pharmacy"                                       *)
LaterEntryWinsByEarlierCriterion ==
  /\ Resolved
  /\ call.queries[2] = "cvs pharmacy"
  /\ call.returned[2].merchant_name = "CVS"
  /\ \E i \in 1..(call.returned[2].entry - 1) :
       /\ KNOWN_MERCHANTS[i].key = "macy's"
       /\ Criterion(4, i, "cvs pharmacy", "cvs")

(* the fallback chain of the point valuation as the claim C18 states it *)
StatedPointValue(reward_program) ==
  IF reward_program = {} THEN POINT_VALUES["DEFAULT"]
  ELSE LET program == Some(reward_program)
       IN  IF StrUpper(program.id) \in DOMAIN POINT_VALUES
           THEN POINT_VALUES[StrUpper(program.id)]
           ELSE program.base_point_value_cents

(* C18: get_point_value returns the valuation table's entry for the        *)
(* program's id when the table has one, otherwise the program's own        *)
(* base_point_value_cents, and the system-wide default when no program is  *)
(* given; compute_effective_rate returns the multiplier for a cashback     *)
(* rule and multiplier times that point value for points, miles and hybrid *)
(* rules.                                                                  *)
ValuationFallbackChain ==
  call.op = "valuation" =>
    /\ \A point_value \in call.point_value :
         point_value = StatedPointValue(call.reward_program)
    /\ \A effective_rate \in call.effective_rate :
         effective_rate =
           IF call.earning_rule.reward_type = "cashback_percent"
           THEN call.earning_rule.multiplier
           ELSE RMul(call.earning_rule.multiplier, StatedPointValue(call.reward_program))

(* a points rule was valued on a program the table does not know: the     *)
(* point value is the program's own, not the default                       *)
UnknownProgramValued ==
  /\ call.op = "valuation"
  /\ call.reward_program = {[id |-> "hotel_points", base_point_value_cents |-> Rat(1, 50)]}
  /\ call.earning_rule.reward_type = "points_per_dollar"
  /\ call.earning_rule.multiplier = RInt(4)
  /\ call.point_value = {Rat(1, 50)}
  /\ call.effective_rate = {Rat(8, 100)}

RuleLookedUp == call.op = "find_applicable_rule"

(* the specificity score as the claim C16 states it *)
StatedSpecificity(rule) ==
  10 * Len(rule.merchant_categories) + 20 * Len(rule.merchant_names)
  + 15 * Len(rule.mcc_list) + (IF rule.caps # <<>> THEN 5 ELSE 0)
  - (IF rule.is_rotating THEN 10 ELSE 0)

(* the category/merchant/MCC predicate on the looked-up arguments: a       *)
(* common category, a name containment in either direction for a given,    *)
(* non-empty merchant name, or the given MCC in the rule's list            *)
SatisfiesLookup(rule) ==
  \/ \E k \in 1..Len(rule.merchant_categories) :
       InList(rule.merchant_categories[k], call.categories)
  \/ \E name \in call.merchant_name \ {""} :
       \E k \in 1..Len(rule.merchant_names) :
         \/ StrContains(StrLower(name), StrLower(rule.merchant_names[k]))
         \/ StrContains(StrLower(rule.merchant_names[k]), StrLower(name))
  \/ \E code \in call.mcc \ {""} : InList(code, rule.mcc_list)

(* C16: find_applicable_rule returns, among the rules that satisfy the     *)
(* category/merchant/MCC predicate, one of maximum specificity score, the  *)
(* earliest in the original rule order among those of equal score, and it  *)
(* returns None exactly when no rule satisfies the predicate.              *)
MostSpecificRuleOrNone ==
  RuleLookedUp =>
    LET applicable == {i \in 1..Len(call.rules) : SatisfiesLookup(call.rules[i])}
    IN  /\ call.result = {} <=> applicable = {}
        /\ \A found \in call.result :
             /\ found.rule_index \in applicable
             /\ found.rule = call.rules[found.rule_index]
             /\ \A j \in applicable :
                  /\ StatedSpecificity(call.rules[j]) <= StatedSpecificity(found.rule)
                  /\ StatedSpecificity(call.rules[j]) = StatedSpecificity(found.rule)
                     => found.rule_index <= j

(* two rules of equal score satisfy the predicate and the first of the    *)
(* list was returned                                                       *)
EarlierOfEqualScoresReturned ==
  /\ RuleLookedUp
  /\ Len(call.rules) >= 2
  /\ SatisfiesLookup(call.rules[1])
  /\ SatisfiesLookup(call.rules[2])
  /\ StatedSpecificity(call.rules[1]) = StatedSpecificity(call.rules[2])
  /\ \E found \in call.result : found.rule_index = 1

(* the text is a category key or synonym, or holds a synonym *)
MatchesCategory(text) ==
  \E i \in 1..Len(CATEGORY_SYNONYMS) :
    \/ text = CATEGORY_SYNONYMS[i].name
    \/ InList(text, CATEGORY_SYNONYMS[i].synonyms)
    \/ \E k \in 1..Len(CATEGORY_SYNONYMS[i].synonyms) :
         StrContains(text, CATEGORY_SYNONYMS[i].synonyms[k])

(* the text with every whitespace character replaced by an underscore *)
RECURSIVE Underscored(_)
Underscored(text) ==
  IF text = "" THEN ""
  ELSE (IF CharAt(text, 1) \in Whitespace THEN "_" ELSE CharAt(text, 1))
       \o Underscored(SubSeq(text, 2, Len(text)))

(* C21: a query that matches no known merchant and no category key or     *)
(* synonym resolves to exactly one category, the cleaned query (lower      *)
(* case, trimmed, trailing noise tokens stripped) with whitespace replaced *)
(* by underscores.                                                         *)
UnmatchedQueryBecomesCleanedCategory ==
  Resolved =>
    \A n \in 1..Len(call.queries) :
      (/\ call.returned[n].entry = 0
       /\ ~MatchesCategory(QueryLower(call.queries[n]))
       /\ ~MatchesCategory(QueryClean(call.queries[n])))
      => call.returned[n].normalized_categories =
           <<Underscored(QueryClean(call.queries[n]))>>

(* C22: when the resolution carries an MCC, resolved_categories is, as a   *)
(* set, the union of the merchant entry's normalized categories and the    *)
(* categories the MCC table gives for the MCC; with no MCC, or an MCC the  *)
(* table does not know, it is the set of the entry's or the normalizer's   *)
(* categories alone.                                                       *)
ResolvedCategoriesAreTheUnion ==
  Returned =>
    LET mapping == call.merchant_mapping
        of_mcc == UNION {ListSet(MCC_TO_CATEGORY[mcc]) :
                           mcc \in mapping.mcc \cap DOMAIN MCC_TO_CATEGORY}
    IN  call.recommendation.resolved_categories =
          ListSet(mapping.normalized_categories) \cup of_mcc

(* Netflix was resolved: its MCC adds "utilities" to the entry's categories *)
MccAddsCategory ==
  /\ Returned
  /\ call.merchant_mapping.mcc = {"4899"}
  /\ "utilities" \notin ListSet(InitialCategories[call.merchant_mapping.entry])
  /\ call.recommendation.resolved_categories = {"streaming", "entertainment", "utilities"}

(* C23: find_applicable_rule and get_all_applicable_rules use the same     *)
(* applicability predicate: on the same arguments the first returns None   *)
(* iff the second returns an empty list, and the rule the first returns is *)
(* in the list the second returns.                                         *)
BestRuleIsAmongAllApplicable ==
  call.op = "get_all_applicable_rules" =>
    /\ call.result = {} <=> call.applicable = <<>>
    /\ \A found \in call.result :
         \E i \in 1..Len(call.applicable) :
           call.applicable[i].rule_index = found.rule_index

RMin(a, b) == IF RLess(a, b) THEN a ELSE b
RMax(a, b) == IF RLess(a, b) THEN b ELSE a

(* C24: for a positive cap amount, a spending_amount >= 0 and non-negative *)
(* rates, the rate apply_cap_penalty returns lies between                  *)
(* min(effective_rate, base_rate) and max(effective_rate, base_rate)       *)
(* inclusive.                                                              *)
AdjustedRateBetweenBaseAndBonus ==
  (CapReturned /\ (Len(cap_call.caps) = 0 \/ FirstCapPositive)) =>
    /\ RLeq(RMin(cap_call.effective_rate, cap_call.base_rate), cap_call.result.rate)
    /\ RLeq(cap_call.result.rate, RMax(cap_call.effective_rate, cap_call.base_rate))

(* the forced reload of thread t has read the files and could not read a   *)
(* whole catalog: a file was absent, corrupt or partially written, and a   *)
(* list it is about to store is empty                                      *)
ReloadFailed(t) ==
  /\ frame[t].force_refresh
  /\ pc[t] \in {"store_cards", "store_rules"}
  /\ frame[t].cards = <<>> \/ frame[t].rules = <<>>

(* C25: a forced reload that cannot read a catalog file leaves the cached  *)
(* catalog unchanged: none of its steps changes _cards_cache or            *)
(* _rules_cache.                                                           *)
FailedReloadKeepsCatalog ==
  [][\A t \in Threads :
       (ReloadFailed(t) /\ pc'[t] # pc[t]) => UNCHANGED <<cards_cache, rules_cache>>]_vars

(* the refresh that thread t began last: its scrape step returned False or *)
(* raised, and no other thread has stored to a cache since it began        *)
FailedUndisturbed(t) == ScrapeFailed(t) /\ frame[t].quiet

(* the pair a query is answered from when the caches are as they were      *)
(* before thread t's refresh                                               *)
PairBefore(t) == {<<Some(b[1]), Some(b[2])>> : b \in frame[t].before}

(* C28: a refresh whose scrape step returns False or raises leaves the     *)
(* cached catalog unchanged: the refresh does not reload, the two caches   *)
(* are what they were when the refresh began, and every query issued after *)
(* the refresh is answered with that pair (as long as no other thread's    *)
(* reload has stored to a cache in the meantime).                          *)
FailedRefreshKeepsCatalog ==
  \A t \in Threads :
    FailedUndisturbed(t) =>
      /\ pc[t] \in {"idle", "check_cards", "check_rules", "return_cards", "return_rules"}
      /\ pc[t] # "idle" => ~frame[t].force_refresh
      /\ frame[t].before = {<<cards_cache, rules_cache>>}
      /\ \A u \in Threads :
           (t \in frame[u].after /\ ~frame[u].force_refresh /\ frame[u].returned # {})
             => frame[u].returned = PairBefore(t)

(* the scheduler's refresh wrote new cards to cards.json, its save then    *)
(* failed, and a query issued after it was answered with the first         *)
(* snapshot, which the caches held before the refresh                      *)
FailedSaveLeftNewFile ==
  /\ FailedUndisturbed("scheduler")
  /\ frame["scheduler"].scrape = "false"
  /\ cards_file = ReadableFile(SnapshotCards(2))
  /\ pc["handler"] = "idle"
  /\ ~frame["handler"].force_refresh
  /\ "scheduler" \in frame["handler"].after
  /\ frame["handler"].returned = {<<SnapshotCards(1), SnapshotRules(1)>>}
  /\ frame["scheduler"].before = {<<{SnapshotCards(1)}, {SnapshotRules(1)}>>}

EndpointReturned == call.op = "get_recommendation"

(* every matching (card, rule) candidate of the request in rate order,     *)
(* then those of them that pass the request's filters                      *)
AllMatching == Sorted(Candidates(Some(cards_cache), Some(rules_cache), call.merchant_mapping))
PassingFilters ==
  ApplyFilters(AllMatching, call.filters.issuer, call.filters.reward_type,
               call.filters.network, call.include_business)

(* C26: the response of the filtered endpoint holds the first              *)
(* min(max_results, n) of the n matching candidates that pass the filters, *)
(* in rate order.                                                          *)
ResponseIsTopOfAllPassing ==
  EndpointReturned =>
    /\ Len(call.response.candidate_cards) = Min(call.max_results, Len(PassingFilters))
    /\ call.response.candidate_cards = Prefix(PassingFilters, call.max_results)

(* C27: in every response of the endpoint the explanation says "No         *)
(* specific rewards found" exactly when candidate_cards is empty, and      *)
(* otherwise names the card of the first entry of candidate_cards as the   *)
(* best.                                                                   *)
ExplanationMatchesResponse ==
  EndpointReturned =>
    LET cs == call.response.candidate_cards
        explanation == call.response.explanation
    IN  /\ explanation.text = "No specific rewards found" <=> Len(cs) = 0
        /\ Len(cs) > 0 => /\ explanation.text = "offers the best value"
                          /\ explanation.best_card = cs[1].card.name

(* a call of fetch_url has returned *)
FetchReturned == call.op = "fetch_url" /\ call.url # "" /\ call.pc = "idle"

(* the requests of the call so far: driver.get or session.get *)
Requests == {i \in 1..Len(call.events) : call.events[i].ev \in {"driver.get", "session.get"}}
HttpAttempts == {i \in 1..Len(call.events) : call.events[i].ev = "session.get"}

(* the URL of the call was cached when the call began: the scraper uses    *)
(* the cache and the URL's file was there to be read; and the content read *)
(* from it                                                                 *)
UrlCached == call.use_cache /\ call.file.exists /\ call.file.readable
CachedContent == UniversalNewlines(call.file.text)

(* C29: with offline_mode set no call issues a request, and a call returns *)
(* the cached content when the URL is cached and None otherwise; with      *)
(* caching enabled a URL whose non-empty content an earlier call fetched   *)
(* is served from the cache, without a request.                            *)
OfflineServesWhateverIsCached ==
  /\ call.offline_mode =>
       /\ Requests = {}
       /\ FetchReturned => call.returned = IF UrlCached THEN {CachedContent} ELSE {}
  /\ (FetchReturned /\ call.use_cache /\ call.known) =>
       /\ Requests = {}
       /\ UrlCached
       /\ call.returned = {CachedContent}

(* the waits the call has made are the rate limiting before the first      *)
(* request, the two seconds for the page after driver.get, and the waits   *)
(* after a failed attempt that another attempt follows                     *)
WaitsAreBetweenAttempts ==
  LET events == call.events
  IN  \A i \in 1..Len(events) :
        events[i].ev = "sleep" =>
          /\ events[i].seconds > 0
          /\ \/ i = 1
             \/ /\ events[i - 1].ev = "driver.get"
                /\ events[i - 1].ok
                /\ ~call.wait_for_element
             \/ /\ events[i - 1].ev = "session.get"
                /\ ~events[i - 1].ok
                /\ i < Len(events) => events[i + 1].ev = "session.get"
                /\ i = Len(events) => call.pc = "http" /\ call.attempt < call.retries

(* the safety part of C30, on every state of a call *)
AttemptsWithinRetries ==
  call.op = "fetch_url" =>
    LET events == call.events
        last == IF HttpAttempts = {} THEN 0 ELSE CHOOSE i \in HttpAttempts : \A j \in HttpAttempts : i >= j
    IN  /\ Cardinality(HttpAttempts) <= call.retries
        /\ \A i \in HttpAttempts : i # last => ~events[i].ok
        /\ \A i \in HttpAttempts : (~events[i].ok /\ i # last) => events[i + 1].ev = "sleep"
        /\ WaitsAreBetweenAttempts
        /\ (FetchReturned /\ HttpAttempts # {}) =>
             /\ last = Len(events)
             /\ events[last].ok => call.returned = {events[last].text}
             /\ ~events[last].ok => /\ call.returned = {}
                                    /\ Cardinality(HttpAttempts) = call.retries

(* C30: fetch_url always terminates and makes at most `retries` HTTP       *)
(* attempts per call; the first successful attempt is the last one and its *)
(* body is returned; when every attempt fails, None is returned after      *)
(* attempt number `retries`; there is a wait after every failed attempt    *)
(* but the last.                                                           *)
FetchUrlTerminatesWithinRetries ==
  /\ []AttemptsWithinRetries
  /\ (call.pc # "idle") ~> (call.pc = "idle")

(* every one of MAX_RETRIES attempts failed, after the Selenium path had   *)
(* loaded the page, waited for it and failed to read it: two waits between *)
(* the attempts, none after the third, and None returned                   *)
AllAttemptsFailed ==
  /\ FetchReturned
  /\ call.retries = MAX_RETRIES
  /\ Cardinality(HttpAttempts) = MAX_RETRIES
  /\ \E i \in 1..Len(call.events) : call.events[i].ev = "driver.page_source"
  /\ Cardinality({i \in 1..Len(call.events) : call.events[i].ev = "sleep"
                                              /\ i > 1 /\ call.events[i - 1].ev = "session.get"}) = 2
  /\ call.events[Len(call.events)].ev = "session.get"
  /\ call.returned = {}
====
